---- MODULE Spec2Model ----
(***************************************************************************)
(* Model of the long-running task manager (src/src/core/long_running.py)   *)
(* and of the REST layer that drives it (src/src/api/tasks.py).            *)
(*                                                                         *)
(* Scheduling: one asyncio event loop.  Code between two awaits runs       *)
(* atomically; every action below is one such stretch of code.  The        *)
(* convenience operations of the manager mutate the task before their only *)
(* await (the publish) and do nothing after it, so each is one action.     *)
(* execute_task is split at its awaits: the first publish, the await of    *)
(* the executor, the final publish.                                        *)
(***************************************************************************)
EXTENDS Integers, Sequences, FiniteSets, TLC

VARIABLES
    tasks,          \* keys of LongRunningTaskManager.tasks (the registry)
    objects,        \* the LongRunningTask objects, by id (live on after a delete)
    pause_events,   \* LongRunningTaskManager._pause_events: id -> gate is set
    executors,      \* LongRunningTaskManager._executors: id -> execute_task call
    calls,          \* the execute_task coroutines and their executor units of work
    published,      \* per id: the publish calls made on task:{id}:updates, the status in
                    \* the last snapshot handed to publish, and whether Redis took it
    cache,          \* RedisCache contents written by the manager
    redis_up,       \* Redis answers; when it does not, its commands raise RedisError
    leaked,         \* a collaborator failure has left a manager operation as an exception
    now,            \* the clock read by datetime.now
    ret,            \* the value returned by the last convenience operation (False before
                    \* any), or whether the last delete request was accepted
    chunker,        \* the ChunkingService instances constructed and the chunk_text calls
                    \* made on them, each with its text and the chunks it returned
    a2a,            \* A2AServer: the keys of A2AServer.tasks, the A2ATask objects by id,
                    \* where the _execute_task run of each is, and the answer to the
                    \* last cancel request
    sessions        \* SessionManager: the session:{id} and history:{id} keys of Redis
                    \* and the SessionManager coroutines in flight

vars == <<tasks, objects, pause_events, executors, calls, published, cache, redis_up, leaked,
          now, ret, chunker, a2a, sessions>>

(***************************************************************************)
(* Bounds                                                                  *)
(***************************************************************************)
MaxCalls == 2        \* execute requests followed
MaxClock == 1        \* last instant of the clock
MaxPublished == 6    \* snapshots followed per task

\* The manager keeps all its state per task id (tasks, _pause_events, _executors)
\* and no operation reads another task's entry, so one task is followed.  Requests
\* may also name an id that uuid4 never handed out.
TaskIds == {"t1"}
RequestIds == TaskIds \cup {"t0"}
\* the ids followed where several tasks share the registry
RegistryIds == {"t1", "t2"}
CallIds == 1..MaxCalls

None == "None"

\* class TaskStatus
PENDING == "pending"
RUNNING == "running"
PAUSED == "paused"
WAITING_INPUT == "waiting_input"
COMPLETED == "completed"
FAILED == "failed"
CANCELLED == "cancelled"

TaskStatus == {PENDING, RUNNING, PAUSED, WAITING_INPUT, COMPLETED, FAILED, CANCELLED}
Terminal == {COMPLETED, FAILED, CANCELLED}

\* Values the environment supplies
Results == {"ok"}
ExcMsgs == {"boom"}
Inputs == {"in1"}
Prompts == {"p1"}
Schemas == {"s1"}
CheckpointData == {"ck1"}

\* user ids of the registry specification: none, the empty string, a name
UserIds == {None, "", "u1"}

\* the status arguments of list_tasks in the registry specification
StatusArgs == {None, PENDING, CANCELLED}

\* checkpoint payloads of the checkpoint specification: two dictionaries json.dumps
\* accepts and one it refuses with TypeError (a dictionary holding a Python set)
CheckpointArgs == {"ck1", "ck2", "ck_set"}

Unserialisable == {"ck_set"}
OptSteps == {<<>>, <<1>>}
OptTotals == {<<>>, <<4>>}
OptMessages == {None, "m1"}
OptDetails == {None, "d1"}
\* the arguments of update_progress where the progress fields are followed on their own
ProgressSteps == {<<>>, <<0>>, <<3>>}
ProgressTotals == {<<>>, <<0>>, <<4>>}

\* dataclass TaskProgress: percentage is kept as the fraction <<numerator, denominator>>
TaskProgress ==
    [current_step |-> 0, total_steps |-> 0, percentage |-> <<0, 1>>, message |-> "", details |-> "{}"]

\* dataclass LongRunningTask, as constructed by create_task at time t
LongRunningTask(t) ==
    [status |-> PENDING,
     progress |-> TaskProgress,
     output_data |-> None,
     error |-> None,
     created_at |-> t,
     updated_at |-> t,
     started_at |-> <<>>,
     completed_at |-> <<>>,
     pending_input_prompt |-> None,
     pending_input_schema |-> None,
     user_input |-> None,
     checkpoint_data |-> None,
     user_id |-> None,
     position |-> 0]

\* An execute_task coroutine that has not been requested yet
\* (waited records that cancel_task was accepted while the executor was blocked on the gate,
\* fed the input_data of the last provide_input accepted since the executor's pending
\* TaskContext.request_input was made, got the value that request_input returned)
IdleCall == [tid |-> None, pc |-> "idle", inner |-> "none", value |-> None, got |-> None,
             waited |-> FALSE, fed |-> None]

InnerDone == {"done_ok", "done_exc", "done_cancelled"}
InnerInFlight == {"run", "blocked_pause", "req_sent", "blocked_input", "input_woken"}

Init ==
    /\ tasks = {}
    /\ objects = <<>>
    /\ pause_events = <<>>
    /\ executors = <<>>
    /\ calls = [c \in CallIds |-> IdleCall]
    /\ published = [t \in TaskIds \cup RegistryIds |-> [count |-> 0, status |-> None, delivered |-> FALSE]]
    /\ cache = <<>>
    /\ redis_up = TRUE
    /\ leaked = FALSE
    /\ now = 0
    /\ ret = FALSE
    /\ chunker = [services |-> <<>>, built |-> <<>>, log |-> <<>>]
    /\ a2a = [tasks |-> {}, objects |-> <<>>, runs |-> <<>>, response |-> 0]
    /\ sessions = [session |-> <<>>, history |-> <<>>, created |-> {}, ops |-> <<>>]

(***************************************************************************)
(* Helpers                                                                 *)
(***************************************************************************)
\* self.tasks.get(task_id)
Registered(t) == t \in tasks

\* d[k] = v on a dict modelled as a function
Put(d, k, v) == [x \in (DOMAIN d) \cup {k} |-> IF x = k THEN v ELSE d[x]]

\* d.pop(k, None)
Pop(d, k) == [x \in (DOMAIN d) \ {k} |-> d[x]]

\* the exception a Redis command raises when the backend does not answer
\* (ConnectionError and TimeoutError are RedisError)
RedisError == "RedisError"

\* the except clause of RedisPubSub.publish with RedisError left out
publish_except_type_error_only == {"TypeError"}

\* RedisPubSub.publish, line 262: the exceptions it catches, logs and answers with 0
publish_except == {"RedisError", "TypeError"}

\* RedisCache.set, line 118: the exceptions it catches, logs and answers with False
set_except == {"RedisError", "TypeError"}

\* a Redis command inside a try with the given except clause lets its failure out
Escapes(except) == ~redis_up /\ RedisError \notin except

\* RedisPubSub.publish of task.to_dict(): the snapshot carries the status the task
\* has when the call is made
CanPublish(t) == published[t].count < MaxPublished

\* Publish with the snapshot's status left as in the snapshot before
Publish_stale_status(t) ==
    published' = [published EXCEPT ![t] = [count |-> @.count + 1,
                                           status |-> @.status,
                                           delivered |-> redis_up]]

Publish(t) ==
    published' = [published EXCEPT ![t] = [count |-> @.count + 1,
                                           status |-> objects'[t].status,
                                           delivered |-> redis_up]]

\* _publish_update: one snapshot on the task's channel
PublishUpdate(t) == Publish(t) /\ leaked' = (leaked \/ Escapes(publish_except))

\* RedisCache.set: json.dumps(value) raises TypeError before Redis is asked, setex
\* raises RedisError when Redis does not answer
SetFailure(v) ==
    IF v \in Unserialisable THEN "TypeError"
    ELSE IF ~redis_up THEN RedisError
    ELSE None

\* RedisCache.set: the value is stored when it serialises and Redis answers
CacheSet(k, v) == IF SetFailure(v) = None THEN Put(cache, k, v) ELSE cache

\* asyncio.Event.set: every waiter of the gate is released, whatever happens to
\* the gate afterwards
Released(c, t) ==
    IF calls[c].tid = t /\ calls[c].inner = "blocked_pause"
    THEN [calls[c] EXCEPT !.inner = "run"]
    ELSE IF calls[c].tid = t /\ calls[c].inner = "blocked_input"
         THEN [calls[c] EXCEPT !.inner = "input_woken"]
         ELSE calls[c]

EventSet(t) == [c \in CallIds |-> Released(c, t)]

\* time passes
Tick ==
    /\ now < MaxClock
    /\ now' = now + 1
    /\ UNCHANGED <<tasks, objects, pause_events, executors, calls, published, leaked, cache, redis_up, chunker, a2a, sessions, ret>>

(***************************************************************************)
(* create_task                                                             *)
(***************************************************************************)
\* FreshIds with no regard to the ids handed out
FreshIds_reused(Ids) == Ids

\* uuid.uuid4(): the ids never handed out before
FreshIds(Ids) == Ids \ DOMAIN objects

\* create_task, its id drawn from Ids and its user_id from Users; position is the
\* task's place in the insertion order of the self.tasks dictionary
create_task_of(Ids, Users) ==
    /\ \E t \in FreshIds(Ids), u \in Users :
        /\ CanPublish(t)
        /\ objects' = Put(objects, t, [LongRunningTask(now) EXCEPT
                                          !.user_id = u,
                                          !.position = Cardinality(DOMAIN objects)])
        /\ tasks' = tasks \cup {t}
        /\ pause_events' = Put(pause_events, t, TRUE)
        /\ cache' = CacheSet(<<"task", t>>, PENDING)
        /\ Publish(t)
        /\ leaked' = (leaked \/ Escapes(set_except) \/ Escapes(publish_except))
    /\ UNCHANGED <<executors, calls, redis_up, chunker, a2a, sessions, now, ret>>

create_task == create_task_of(TaskIds, {None})

(***************************************************************************)
(* execute_task                                                            *)
(***************************************************************************)
\* lines 208-210: the task as execute_task leaves it before its first publish
execute_task_begin(o, t) ==
    [o EXCEPT !.status = RUNNING, !.started_at = <<t>>, !.updated_at = t]

\* lines 204-211: up to the first await, for the call c on the task t
execute_task_start(c, t) ==
    /\ IF ~Registered(t)
       THEN /\ calls' = [calls EXCEPT ![c] = [IdleCall EXCEPT !.tid = t, !.pc = "raised"]]
            /\ UNCHANGED <<objects, published, leaked>>
       ELSE /\ CanPublish(t)
            /\ objects' = [objects EXCEPT ![t] = execute_task_begin(@, now)]
            /\ PublishUpdate(t)
            /\ calls' = [calls EXCEPT ![c] = [IdleCall EXCEPT !.tid = t, !.pc = "started"]]
    /\ UNCHANGED <<tasks, pause_events, executors, cache, redis_up, chunker, a2a, sessions, now, ret>>

(***************************************************************************)
(* POST /api/v1/tasks/{task_id}/execute                                    *)
(***************************************************************************)
\* the guard of the endpoint: 404 for an unknown id, 400 unless PENDING or PAUSED
api_execute_guard(t) == Registered(t) /\ objects[t].status \in {PENDING, PAUSED}

\* asyncio.create_task(manager.execute_task(task_id, executor)): the coroutine is
\* put on the loop's ready queue and runs to its first await at the next turn of
\* the loop, before any pending I/O of another coroutine completes
api_execute_task(c, t) ==
    /\ calls[c].pc = "idle"
    /\ \A d \in CallIds : d < c => calls[d].pc # "idle"
    /\ api_execute_guard(t)
    /\ execute_task_start(c, t)

\* lines 217-223: the executor is created as an asyncio task and registered
execute_task_spawn(c) ==
    /\ calls[c].pc = "started"
    /\ calls' = [calls EXCEPT ![c].pc = "awaiting", ![c].inner = "run"]
    /\ executors' = Put(executors, calls[c].tid, c)
    /\ UNCHANGED <<tasks, objects, pause_events, published, leaked, cache, redis_up, chunker, a2a, sessions, now, ret>>

\* execute_task_end with the failure's message dropped
execute_task_end_no_error(o, inner, value, t) ==
    IF inner = "done_ok"
    THEN [o EXCEPT !.output_data = value, !.status = COMPLETED,
                   !.completed_at = <<t>>, !.updated_at = t]
    ELSE IF inner = "done_cancelled"
         THEN [o EXCEPT !.status = CANCELLED, !.updated_at = t]
         ELSE [o EXCEPT !.status = FAILED, !.updated_at = t]

\* lines 223-241: the task as the three outcomes of the awaited executor leave it
execute_task_end(o, inner, value, t) ==
    IF inner = "done_ok"
    THEN [o EXCEPT !.output_data = value, !.status = COMPLETED,
                   !.completed_at = <<t>>, !.updated_at = t]
    ELSE IF inner = "done_cancelled"
         THEN [o EXCEPT !.status = CANCELLED, !.updated_at = t]
         ELSE [o EXCEPT !.status = FAILED, !.error = value, !.updated_at = t]

\* lines 223-242: the awaited executor is done; up to the final publish
execute_task_finish(c) ==
    /\ calls[c].pc = "awaiting"
    /\ calls[c].inner \in InnerDone
    /\ LET t == calls[c].tid IN
        /\ CanPublish(t)
        /\ objects' = [objects EXCEPT ![t] = execute_task_end(@, calls[c].inner, calls[c].value, now)]
        /\ PublishUpdate(t)
    /\ calls' = [calls EXCEPT ![c].pc = "finishing"]
    /\ UNCHANGED <<tasks, pause_events, executors, cache, redis_up, chunker, a2a, sessions, now, ret>>

\* line 243: after the final publish
execute_task_return(c) ==
    /\ calls[c].pc = "finishing"
    /\ executors' = Pop(executors, calls[c].tid)
    /\ calls' = [calls EXCEPT ![c].pc = "returned"]
    /\ UNCHANGED <<tasks, objects, pause_events, published, leaked, cache, redis_up, chunker, a2a, sessions, now, ret>>

(***************************************************************************)
(* The executor: any sequence of TaskContext calls, ended by a return or   *)
(* by an exception.  It runs only between execute_task_spawn and the       *)
(* moment it is done.                                                      *)
(***************************************************************************)
Running(c) == calls[c].pc = "awaiting" /\ calls[c].inner = "run"

\* update_progress with the fields that are not provided reset to their defaults
update_progress_resets_missing(o, cs, ts, msg, det, t) ==
    LET c1 == IF cs # <<>> THEN cs[1] ELSE 0
        t1 == IF ts # <<>> THEN ts[1] ELSE 0
        m1 == IF msg # None THEN msg ELSE ""
        d1 == IF det # None THEN det ELSE "{}"
        p1 == IF t1 > 0 THEN <<c1 * 100, t1>> ELSE o.progress.percentage
    IN [o EXCEPT !.progress = [current_step |-> c1, total_steps |-> t1, percentage |-> p1,
                               message |-> m1, details |-> d1],
                 !.updated_at = t]

\* lines 405-420: the task as update_progress leaves it
update_progress(o, cs, ts, msg, det, t) ==
    LET c1 == IF cs # <<>> THEN cs[1] ELSE o.progress.current_step
        t1 == IF ts # <<>> THEN ts[1] ELSE o.progress.total_steps
        m1 == IF msg # None THEN msg ELSE o.progress.message
        d1 == IF det # None THEN det ELSE o.progress.details
        p1 == IF t1 > 0 THEN <<c1 * 100, t1>> ELSE o.progress.percentage
    IN [o EXCEPT !.progress = [current_step |-> c1, total_steps |-> t1, percentage |-> p1,
                               message |-> m1, details |-> d1],
                 !.updated_at = t]

\* TaskContext.update_progress -> LongRunningTaskManager.update_progress
ctx_update_progress(c, cs, ts, msg, det) ==
    /\ Running(c)
    /\ LET t == calls[c].tid IN
        IF ~Registered(t)
        THEN UNCHANGED <<objects, published, leaked>>
        ELSE /\ CanPublish(t)
             /\ objects' = [objects EXCEPT ![t] = update_progress(@, cs, ts, msg, det, now)]
             /\ PublishUpdate(t)
    /\ UNCHANGED <<tasks, pause_events, executors, calls, cache, redis_up, chunker, a2a, sessions, now, ret>>

\* TaskContext.check_pause: Event.wait returns at once on a set gate, blocks otherwise
ctx_check_pause(c) ==
    /\ Running(c)
    /\ LET t == calls[c].tid IN
        calls' = [calls EXCEPT ![c].inner =
                    IF t \in DOMAIN pause_events /\ ~pause_events[t] THEN "blocked_pause" ELSE "run"]
    /\ UNCHANGED <<tasks, objects, pause_events, executors, published, leaked, cache, redis_up, chunker, a2a, sessions, now, ret>>

\* lines 346-350: the task as request_input leaves it
request_input(o, prompt, schema, t) ==
    [o EXCEPT !.status = WAITING_INPUT, !.pending_input_prompt = prompt,
              !.pending_input_schema = schema, !.user_input = None, !.updated_at = t]

\* TaskContext.request_input, up to the publish inside LongRunningTaskManager.request_input
ctx_request_input(c, prompt, schema) ==
    /\ Running(c)
    /\ LET t == calls[c].tid IN
        IF ~Registered(t)
        THEN UNCHANGED <<objects, pause_events, published, leaked>>
        ELSE /\ CanPublish(t)
             /\ objects' = [objects EXCEPT ![t] = request_input(@, prompt, schema, now)]
             /\ pause_events' = IF t \in DOMAIN pause_events
                                THEN [pause_events EXCEPT ![t] = FALSE] ELSE pause_events
             /\ PublishUpdate(t)
    /\ calls' = [calls EXCEPT ![c].inner = "req_sent", ![c].fed = None]
    /\ UNCHANGED <<tasks, executors, cache, redis_up, chunker, a2a, sessions, now, ret>>

\* TaskContext.request_input, lines 522-526: wait on the gate; on a set gate the
\* stored user_input is returned at once
ctx_await_input(c) ==
    /\ calls[c].pc = "awaiting" /\ calls[c].inner = "req_sent"
    /\ LET t == calls[c].tid IN
        calls' = IF t \in DOMAIN pause_events /\ ~pause_events[t]
                 THEN [calls EXCEPT ![c].inner = "blocked_input"]
                 ELSE [calls EXCEPT ![c].inner = "run", ![c].got = objects[t].user_input,
                                    ![c].fed = None]
    /\ UNCHANGED <<tasks, objects, pause_events, executors, published, leaked, cache, redis_up, chunker, a2a, sessions, now, ret>>

\* TaskContext.request_input, line 526: the released waiter reads user_input when it runs
ctx_read_input(c) ==
    /\ calls[c].pc = "awaiting" /\ calls[c].inner = "input_woken"
    /\ calls' = [calls EXCEPT ![c].inner = "run", ![c].got = objects[calls[c].tid].user_input,
                             ![c].fed = None]
    /\ UNCHANGED <<tasks, objects, pause_events, executors, published, leaked, cache, redis_up, chunker, a2a, sessions, now, ret>>

\* checkpoint keeping the payload of the first call
checkpoint_keeps_first(o, d) ==
    IF o.checkpoint_data = None THEN [o EXCEPT !.checkpoint_data = d] ELSE o

\* LongRunningTaskManager.checkpoint: task.checkpoint_data = data
checkpoint(o, d) == [o EXCEPT !.checkpoint_data = d]

\* TaskContext.get_checkpoint: the payload held by the context's task object
get_checkpoint(objs, t) == objs[t].checkpoint_data

\* TaskContext.checkpoint -> LongRunningTaskManager.checkpoint
ctx_checkpoint(c, d) ==
    /\ Running(c)
    /\ LET t == calls[c].tid IN
        IF ~Registered(t)
        THEN UNCHANGED <<objects, cache, leaked>>
        ELSE /\ objects' = [objects EXCEPT ![t] = checkpoint(@, d)]
             /\ cache' = CacheSet(<<"checkpoint", t>>, d)
             /\ leaked' = (leaked \/ SetFailure(d) \notin set_except \cup {None})
    /\ UNCHANGED <<tasks, pause_events, executors, calls, published, redis_up, chunker, a2a, sessions, now, ret>>

\* the executor returns v
executor_return(c, v) ==
    /\ Running(c)
    /\ calls' = [calls EXCEPT ![c].inner = "done_ok", ![c].value = v]
    /\ UNCHANGED <<tasks, objects, pause_events, executors, published, leaked, cache, redis_up, chunker, a2a, sessions, now, ret>>

\* the executor raises Exception(m)
executor_raise(c, m) ==
    /\ Running(c)
    /\ calls' = [calls EXCEPT ![c].inner = "done_exc", ![c].value = m]
    /\ UNCHANGED <<tasks, objects, pause_events, executors, published, leaked, cache, redis_up, chunker, a2a, sessions, now, ret>>

(***************************************************************************)
(* pause_task, resume_task, cancel_task, provide_input                     *)
(***************************************************************************)
Returned(v) == ret' = v

\* pause_task_rejects without the status test
pause_task_rejects_unknown_only(t) == ~Registered(t)

\* line 264
pause_task_rejects(t) == ~Registered(t) \/ objects[t].status # RUNNING

pause_task(t) ==
    /\ IF pause_task_rejects(t)
       THEN /\ Returned(FALSE)
            /\ UNCHANGED <<objects, pause_events, published, leaked>>
       ELSE /\ CanPublish(t)
            /\ pause_events' = IF t \in DOMAIN pause_events
                               THEN [pause_events EXCEPT ![t] = FALSE] ELSE pause_events
            /\ objects' = [objects EXCEPT ![t].status = PAUSED, ![t].updated_at = now]
            /\ PublishUpdate(t)
            /\ Returned(TRUE)
    /\ UNCHANGED <<tasks, executors, calls, cache, redis_up, chunker, a2a, sessions, now>>

\* line 286
resume_task_rejects(t) == ~Registered(t) \/ objects[t].status # PAUSED

resume_task(t) ==
    /\ IF resume_task_rejects(t)
       THEN /\ Returned(FALSE)
            /\ UNCHANGED <<objects, pause_events, calls, published, leaked>>
       ELSE /\ CanPublish(t)
            /\ pause_events' = IF t \in DOMAIN pause_events
                               THEN [pause_events EXCEPT ![t] = TRUE] ELSE pause_events
            /\ calls' = IF t \in DOMAIN pause_events THEN EventSet(t) ELSE calls
            /\ objects' = [objects EXCEPT ![t].status = RUNNING, ![t].updated_at = now]
            /\ PublishUpdate(t)
            /\ Returned(TRUE)
    /\ UNCHANGED <<tasks, executors, cache, redis_up, chunker, a2a, sessions, now>>

\* line 308
cancel_task_rejects(t) == ~Registered(t) \/ objects[t].status \in Terminal

\* lines 312-313: Task.cancel() ends an executor that is not done at the await it is
\* suspended at (asyncio.CancelledError is thrown into it); a done one is untouched
Cancelled(c, t) ==
    IF t \in DOMAIN executors /\ executors[t] = c /\ calls[c].inner \in InnerInFlight
    THEN [calls[c] EXCEPT !.inner = "done_cancelled"]
    ELSE calls[c]

\* a waiter of the gate at the moment cancel_task is accepted
Blocked(c, t) == calls[c].tid = t /\ calls[c].inner \in {"blocked_pause", "blocked_input"}

\* lines 312-317 as the units of work see them: the registered executor is
\* cancelled, every other waiter of the gate is released
cancel_task_calls(t) ==
    [c \in CallIds |->
        LET k == IF Cancelled(c, t) # calls[c] THEN Cancelled(c, t)
                 ELSE IF t \in DOMAIN pause_events THEN Released(c, t) ELSE calls[c]
        IN [k EXCEPT !.waited = @ \/ Blocked(c, t)]]

\* cancel_task_gate with the gate left as it is
cancel_task_gate_untouched(t) == pause_events

\* lines 316-317: the gate after cancel_task
cancel_task_gate(t) ==
    IF t \in DOMAIN pause_events THEN [pause_events EXCEPT ![t] = TRUE] ELSE pause_events

cancel_task(t) ==
    /\ IF cancel_task_rejects(t)
       THEN /\ Returned(FALSE)
            /\ UNCHANGED <<objects, pause_events, calls, published, leaked>>
       ELSE /\ CanPublish(t)
            /\ calls' = cancel_task_calls(t)
            /\ pause_events' = cancel_task_gate(t)
            /\ objects' = [objects EXCEPT ![t].status = CANCELLED, ![t].updated_at = now]
            /\ PublishUpdate(t)
            /\ Returned(TRUE)
    /\ UNCHANGED <<tasks, executors, cache, redis_up, chunker, a2a, sessions, now>>

\* line 375
provide_input_rejects(t) == ~Registered(t) \/ objects[t].status # WAITING_INPUT

\* lines 378-382: the task as provide_input leaves it
provide_input_task(o, d, t) ==
    [o EXCEPT !.user_input = d, !.pending_input_prompt = None,
              !.pending_input_schema = None, !.status = RUNNING, !.updated_at = t]

\* a TaskContext.request_input call of task t that has not returned
Requesting(c, t) ==
    calls[c].tid = t /\ calls[c].inner \in {"req_sent", "blocked_input", "input_woken"}

\* lines 385-386 as the units of work see them: the waiters of the gate are released
provide_input_calls(t, d) ==
    [c \in CallIds |->
        [(IF t \in DOMAIN pause_events THEN Released(c, t) ELSE calls[c])
            EXCEPT !.fed = IF Requesting(c, t) THEN d ELSE @]]

provide_input(t, d) ==
    /\ IF provide_input_rejects(t)
       THEN /\ Returned(FALSE)
            /\ UNCHANGED <<objects, pause_events, calls, published, leaked>>
       ELSE /\ CanPublish(t)
            /\ objects' = [objects EXCEPT ![t] = provide_input_task(@, d, now)]
            /\ pause_events' = IF t \in DOMAIN pause_events
                               THEN [pause_events EXCEPT ![t] = TRUE] ELSE pause_events
            /\ calls' = provide_input_calls(t, d)
            /\ PublishUpdate(t)
            /\ Returned(TRUE)
    /\ UNCHANGED <<tasks, executors, cache, redis_up, chunker, a2a, sessions, now>>

(***************************************************************************)
(* DELETE /api/v1/tasks/{task_id}                                          *)
(***************************************************************************)
\* api_delete_rejects without the status test
api_delete_rejects_unknown_only(t) == ~Registered(t)

\* lines 228-235: 404 for an unknown id, 400 unless the status is terminal
api_delete_rejects(t) == ~Registered(t) \/ objects[t].status \notin Terminal

\* ret records whether the request was answered with "Task deleted"
api_delete_task(t) ==
    /\ IF api_delete_rejects(t)
       THEN Returned(FALSE) /\ UNCHANGED tasks
       ELSE Returned(TRUE) /\ tasks' = tasks \ {t}
    /\ UNCHANGED <<objects, pause_events, executors, calls, published, leaked, cache, redis_up, chunker, a2a, sessions, now>>

(***************************************************************************)
(* The system: the clock, the REST requests, the execute_task coroutines   *)
(* and their executors                                                     *)
(***************************************************************************)
Next ==
    \/ Tick
    \/ create_task
    \/ \E c \in CallIds, t \in RequestIds : api_execute_task(c, t)
    \/ \E c \in CallIds : execute_task_spawn(c)
    \/ \E c \in CallIds : execute_task_finish(c)
    \/ \E c \in CallIds : execute_task_return(c)
    \/ \E c \in CallIds, cs \in OptSteps, ts \in OptTotals : ctx_update_progress(c, cs, ts, None, None)
    \/ \E c \in CallIds : ctx_check_pause(c)
    \/ \E c \in CallIds, d \in CheckpointData : ctx_checkpoint(c, d)
    \/ \E c \in CallIds, p \in Prompts, s \in Schemas : ctx_request_input(c, p, s)
    \/ \E c \in CallIds : ctx_await_input(c)
    \/ \E c \in CallIds : ctx_read_input(c)
    \/ \E c \in CallIds, v \in Results : executor_return(c, v)
    \/ \E c \in CallIds, m \in ExcMsgs : executor_raise(c, m)
    \/ \E t \in RequestIds : pause_task(t)
    \/ \E t \in RequestIds : resume_task(t)
    \/ \E t \in RequestIds : cancel_task(t)
    \/ \E t \in RequestIds, d \in Inputs : provide_input(t, d)
    \/ \E t \in RequestIds : api_delete_task(t)

Spec == Init /\ [][Next]_vars

(***************************************************************************)
(* The progress fields on their own: an executor that only reports         *)
(* progress, with every combination of provided fields, while the task is  *)
(* paused, resumed, cancelled and deleted around it                        *)
(***************************************************************************)
NextProgress ==
    \/ Tick
    \/ create_task
    \/ \E c \in CallIds, t \in RequestIds : api_execute_task(c, t)
    \/ \E c \in CallIds : execute_task_spawn(c)
    \/ \E c \in CallIds, cs \in ProgressSteps, ts \in ProgressTotals,
          msg \in OptMessages, det \in OptDetails : ctx_update_progress(c, cs, ts, msg, det)
    \/ \E t \in RequestIds : pause_task(t)
    \/ \E t \in RequestIds : resume_task(t)
    \/ \E t \in RequestIds : cancel_task(t)
    \/ \E t \in RequestIds : api_delete_task(t)

SpecProgress == Init /\ [][NextProgress]_vars

(***************************************************************************)
(* The registry with several tasks: tasks are created, cancelled and       *)
(* deleted side by side                                                    *)
(***************************************************************************)
create_task_registry == create_task_of(RegistryIds, UserIds)

\* Python truthiness of an optional argument: None and "" are false
Truthy(x) == x \notin {None, ""}

\* sorted(tasks, key=created_at, reverse=True): newest first, tasks of equal
\* created_at in the order of the dictionary
RECURSIVE sorted_newest_first(_)
sorted_newest_first(S) ==
    IF S = {} THEN <<>>
    ELSE LET first == CHOOSE t \in S : \A u \in S \ {t} :
                          \/ objects[t].created_at > objects[u].created_at
                          \/ /\ objects[t].created_at = objects[u].created_at
                             /\ objects[t].position < objects[u].position
         IN  <<first>> \o sorted_newest_first(S \ {first})

\* LongRunningTaskManager.list_tasks: the ids of the tasks it returns, in order
list_tasks(status, user_id) ==
    sorted_newest_first({t \in tasks : /\ Truthy(status) => objects[t].status = status
                                       /\ Truthy(user_id) => objects[t].user_id = user_id})

NextRegistry ==
    \/ Tick
    \/ create_task_registry
    \/ \E t \in RegistryIds : cancel_task(t)
    \/ \E t \in RegistryIds : api_delete_task(t)

SpecRegistry == Init /\ [][NextRegistry]_vars

(***************************************************************************)
(* The manager with a Redis backend that goes down and comes back          *)
(***************************************************************************)
redis_down ==
    /\ redis_up
    /\ redis_up' = FALSE
    /\ UNCHANGED <<tasks, objects, pause_events, executors, calls, published, cache, leaked, now, ret, chunker, a2a, sessions>>

redis_restored ==
    /\ ~redis_up
    /\ redis_up' = TRUE
    /\ UNCHANGED <<tasks, objects, pause_events, executors, calls, published, cache, leaked, now, ret, chunker, a2a, sessions>>

\* the nine manager operations and the executor, at one instant of the clock
NextCollab ==
    \/ redis_down
    \/ redis_restored
    \/ create_task
    \/ \E c \in CallIds, t \in RequestIds : api_execute_task(c, t)
    \/ \E c \in CallIds : execute_task_spawn(c)
    \/ \E c \in CallIds : execute_task_finish(c)
    \/ \E c \in CallIds : execute_task_return(c)
    \/ \E c \in CallIds, cs \in OptSteps, ts \in OptTotals : ctx_update_progress(c, cs, ts, None, None)
    \/ \E c \in CallIds : ctx_check_pause(c)
    \/ \E c \in CallIds, d \in CheckpointData : ctx_checkpoint(c, d)
    \/ \E c \in CallIds, p \in Prompts, s \in Schemas : ctx_request_input(c, p, s)
    \/ \E c \in CallIds : ctx_await_input(c)
    \/ \E c \in CallIds : ctx_read_input(c)
    \/ \E c \in CallIds, v \in Results : executor_return(c, v)
    \/ \E c \in CallIds, m \in ExcMsgs : executor_raise(c, m)
    \/ \E t \in RequestIds : pause_task(t)
    \/ \E t \in RequestIds : resume_task(t)
    \/ \E t \in RequestIds : cancel_task(t)
    \/ \E t \in RequestIds, d \in Inputs : provide_input(t, d)

SpecCollab == Init /\ [][NextCollab]_vars

\* ---------------------------------------------------------------------------
\* The checkpoint specification: executors saving several payloads, some of
\* them not serialisable, while Redis comes and goes and the task is paused,
\* cancelled and deleted
\* ---------------------------------------------------------------------------
NextCheckpoint ==
    \/ create_task
    \/ \E c \in CallIds, t \in TaskIds : api_execute_task(c, t)
    \/ \E c \in CallIds : execute_task_spawn(c)
    \/ \E c \in CallIds, d \in CheckpointArgs : ctx_checkpoint(c, d)
    \/ \E t \in RequestIds : pause_task(t)
    \/ \E t \in RequestIds : cancel_task(t)
    \/ \E t \in RequestIds : api_delete_task(t)
    \/ redis_down
    \/ redis_restored

SpecCheckpoint == Init /\ [][NextCheckpoint]_vars

(***************************************************************************)
(* ChunkingService: texts are sequences of characters                      *)
(***************************************************************************)
NL == "\n"

\* \d
Digit == {"0", "1", "2", "3", "4", "5", "6", "7", "8", "9"}

\* \s, and what str.strip() removes
Whitespace == {" ", NL}

\* [IVX] under re.IGNORECASE
Roman == {"I", "V", "X", "i", "v", "x"}

\* ARTICLE|SECTION|Part under re.IGNORECASE, in upper case
Keywords == {<<"A", "R", "T", "I", "C", "L", "E">>, <<"S", "E", "C", "T", "I", "O", "N">>,
             <<"P", "A", "R", "T">>}

ToUpper == ("a" :> "A") @@ ("r" :> "R") @@ ("t" :> "T") @@ ("i" :> "I") @@ ("c" :> "C")
           @@ ("l" :> "L") @@ ("e" :> "E") @@ ("s" :> "S") @@ ("o" :> "O") @@ ("n" :> "N")
           @@ ("p" :> "P")

Upper(ch) == IF ch \in DOMAIN ToUpper THEN ToUpper[ch] ELSE ch

Min(S) == CHOOSE x \in S : \A y \in S : x <= y

Max(S) == CHOOSE x \in S : \A y \in S : x >= y

\* str.strip() removing nothing
strip_nothing(s) == s

\* str.strip()
strip(s) ==
    LET I == {i \in 1..Len(s) : s[i] \notin Whitespace}
    IN  IF I = {} THEN <<>> ELSE SubSeq(s, Min(I), Max(I))

\* str.rstrip(".0123456789"): the digits go with the dots
rstrip_dot_and_digits(s) ==
    LET I == {i \in 1..Len(s) : s[i] \notin Digit \cup {"."}}
    IN  IF I = {} THEN <<>> ELSE SubSeq(s, 1, Max(I))

\* str.rstrip(".")
rstrip_dot(s) ==
    LET I == {i \in 1..Len(s) : s[i] # "."}
    IN  IF I = {} THEN <<>> ELSE SubSeq(s, 1, Max(I))

\* s[-k:] for k >= 0: -0 is 0, so s[-0:] is the whole of s
last_chars(s, k) == IF k = 0 \/ k >= Len(s) THEN s ELSE SubSeq(s, Len(s) - k + 1, Len(s))

\* str.split("\n\n")
RECURSIVE split(_)
split(s) ==
    LET I == {i \in 1..(Len(s) - 1) : s[i] = NL /\ s[i + 1] = NL}
    IN  IF I = {} THEN <<s>>
        ELSE <<SubSeq(s, 1, Min(I) - 1)>> \o split(SubSeq(s, Min(I) + 2, Len(s)))

\* where a greedy run of characters of Class that starts at q stops
RunEnd(s, q, Class) == Min({i \in q..(Len(s) + 1) : i = Len(s) + 1 \/ s[i] \notin Class})

\* "\s*(.+?)" tried at c: the whitespace run is taken whole and given back until a
\* character other than a newline follows; where group 2 starts, 0 when nowhere
TitleStart(s, c) ==
    LET D == {d \in c..RunEnd(s, c, Whitespace) : d <= Len(s) /\ s[d] # NL}
    IN  IF D = {} THEN 0 ELSE Max(D)

\* "(.+?)(?:\n|$)" from d: group 2 runs to the end of the line
LineEnd(s, d) == Min({f \in (d + 1)..(Len(s) + 1) : f = Len(s) + 1 \/ s[f] = NL})

NoMatch == [start |-> 0, number |-> <<>>, title |-> <<>>, end |-> 0]

\* the match starting at p with group 1 = s[a..b-1] and group 2 starting at d
Matched(s, p, a, b, d) ==
    LET f == LineEnd(s, d)
    IN  [start |-> p,
         number |-> SubSeq(s, a, b - 1),
         title |-> SubSeq(s, d, f - 1),
         end |-> IF f <= Len(s) THEN f + 1 ELSE f]

\* the ends of the successive "\d+\." groups that start at q
RECURSIVE GroupEnds(_, _)
GroupEnds(s, q) ==
    LET r == RunEnd(s, q, Digit)
    IN  IF r > q /\ r <= Len(s) /\ s[r] = "." THEN <<r + 1>> \o GroupEnds(s, r + 1) ELSE <<>>

\* CLAUSE_PATTERN once its "\d+\." groups are read: all of them are kept when
\* something is left for group 2, the last one is given back otherwise
clause_match(s, p, ends) ==
    IF Len(ends) = 0 THEN NoMatch
    ELSE IF TitleStart(s, ends[Len(ends)]) # 0
         THEN Matched(s, p, p, ends[Len(ends)], TitleStart(s, ends[Len(ends)]))
    ELSE IF Len(ends) >= 2
         THEN Matched(s, p, p, ends[Len(ends) - 1], ends[Len(ends) - 1])
    ELSE NoMatch

\* CLAUSE_PATTERN at a line start p: ^(\d+\.(?:\d+\.)*)\s*(.+?)(?:\n|$)
CLAUSE_PATTERN(s, p) == clause_match(s, p, GroupEnds(s, p))

\* where the keyword that starts at p stops, 0 when there is none
KeywordEnd(s, p) ==
    LET K == {k \in Keywords : /\ p + Len(k) - 1 <= Len(s)
                               /\ \A i \in 1..Len(k) : Upper(s[p + i - 1]) = k[i]}
    IN  IF K = {} THEN 0 ELSE p + Len(CHOOSE k \in K : TRUE)

\* SECTION_PATTERN once its number s[a..b-1] is read: "[:\.]?\s*(.+?)(?:\n|$)", the
\* punctuation and then the last character of the number given back when nothing
\* is left for group 2
section_after_number(s, p, a, b) ==
    IF b = a THEN NoMatch
    ELSE IF b <= Len(s) /\ s[b] \in {":", "."} /\ TitleStart(s, b + 1) # 0
         THEN Matched(s, p, a, b, TitleStart(s, b + 1))
    ELSE IF b <= Len(s) /\ s[b] \in {":", "."} THEN Matched(s, p, a, b, b)
    ELSE IF TitleStart(s, b) # 0 THEN Matched(s, p, a, b, TitleStart(s, b))
    ELSE IF b - a >= 2 THEN Matched(s, p, a, b - 1, b - 1)
    ELSE NoMatch

\* SECTION_PATTERN once its keyword s[p..kw-1] and the whitespace s[kw..a-1] are
\* read: "(\d+|[IVX]+)"
section_after_space(s, p, kw, a) ==
    IF a = kw \/ a > Len(s) THEN NoMatch
    ELSE section_after_number(s, p, a, IF s[a] \in Digit THEN RunEnd(s, a, Digit)
                                       ELSE RunEnd(s, a, Roman))

\* SECTION_PATTERN once its keyword s[p..kw-1] is read: "\s+"
section_after_keyword(s, p, kw) ==
    IF kw = 0 THEN NoMatch ELSE section_after_space(s, p, kw, RunEnd(s, kw, Whitespace))

\* SECTION_PATTERN at a line start p:
\* ^(?:ARTICLE|SECTION|Part)\s+(\d+|[IVX]+)[:\.]?\s*(.+?)(?:\n|$)
SECTION_PATTERN(s, p) == section_after_keyword(s, p, KeywordEnd(s, p))

MatchAt(type, s, p) == IF type = "clause" THEN CLAUSE_PATTERN(s, p) ELSE SECTION_PATTERN(s, p)

\* the line starts from pos on at which the pattern matches
MatchStarts(type, s, pos) ==
    {p \in pos..Len(s) : (p = 1 \/ s[p - 1] = NL) /\ MatchAt(type, s, p).start # 0}

RECURSIVE finditer(_, _, _)

\* the match m, then the matches after its end
match_then_rest(type, s, m) == <<m>> \o finditer(type, s, m.end)

\* pattern.finditer(text) from pos on, under re.MULTILINE: the leftmost match at a
\* line start, then the matches after its end
finditer(type, s, pos) ==
    IF MatchStarts(type, s, pos) = {} THEN <<>>
    ELSE match_then_rest(type, s, MatchAt(type, s, Min(MatchStarts(type, s, pos))))

\* the (start, type, number, title) tuples of _chunk_by_clauses
Element(type, m) ==
    [pos |-> m.start,
     type |-> type,
     number |-> IF type = "clause" THEN rstrip_dot(m.number) ELSE m.number,
     title |-> strip(m.title)]

\* elements.sort(key=lambda x: x[0])
RECURSIVE sort_by_pos(_)
sort_by_pos(E) ==
    IF E = {} THEN <<>>
    ELSE LET first == CHOOSE e \in E : \A f \in E : e.pos <= f.pos
         IN  <<first>> \o sort_by_pos(E \ {first})

\* the elements of _chunk_by_clauses, sorted
elements(section_matches, clause_matches) ==
    sort_by_pos({Element("section", section_matches[i]) : i \in 1..Len(section_matches)}
                \cup {Element("clause", clause_matches[i]) : i \in 1..Len(clause_matches)})

\* _get_hierarchy_level counting the dots
get_hierarchy_level_counts_dots(clause_number) ==
    Cardinality({i \in 1..Len(clause_number) : clause_number[i] = "."})

\* _get_hierarchy_level: len(clause_number.rstrip(".").split(".")), 0 for ""
_get_hierarchy_level(clause_number) ==
    IF clause_number = <<>> THEN 0
    ELSE 1 + Cardinality({i \in 1..Len(rstrip_dot(clause_number)) :
                              rstrip_dot(clause_number)[i] = "."})

\* chunk_index += 1 leaving the index as it is
next_index_stuck(i) == i

\* chunk_index += 1
next_index(i) == i + 1

\* chunks.append(Chunk(text=current_text.strip(), chunk_index=chunk_index, ...))
emit(st, clause_number, section_title, parent_section, level, type) ==
    [st EXCEPT !.chunks = Append(@, [text |-> strip(st.current_text),
                                     chunk_index |-> st.chunk_index,
                                     clause_number |-> clause_number,
                                     section_title |-> section_title,
                                     parent_section |-> parent_section,
                                     hierarchy_level |-> level,
                                     chunk_type |-> type])]

\* the structural chunk of the text accumulated so far, without its section
emit_clause_without_section(st, type) ==
    emit(st, st.current_clause, <<>>, <<>>, _get_hierarchy_level(st.current_clause), type)

\* the structural chunk of the text accumulated so far
emit_clause(st, type) ==
    emit(st, st.current_clause, st.current_section_title, st.current_section,
         _get_hierarchy_level(st.current_clause), type)

\* one turn of the loop of _chunk_by_clauses, on elements[i]
clause_step(self, text, elems, i, st) ==
    LET end_pos == IF i + 1 <= Len(elems) THEN elems[i + 1].pos ELSE Len(text) + 1
        element_text == strip(SubSeq(text, elems[i].pos, end_pos - 1))
        kind == IF st.current_clause # <<>> THEN "clause" ELSE "text"
    IN  IF elems[i].type = "section"
        THEN [(IF st.current_text # <<>>
               THEN [emit_clause(st, kind) EXCEPT !.chunk_index = next_index(@),
                                                  !.current_text = <<>>]
               ELSE st)
              EXCEPT !.current_section = elems[i].number,
                     !.current_section_title = elems[i].title,
                     !.current_clause = <<>>]
        ELSE IF Len(st.current_text) + Len(element_text) > self.chunk_size
             THEN [(IF st.current_text # <<>>
                    THEN [emit_clause(st, "clause") EXCEPT !.chunk_index = next_index(@)]
                    ELSE st)
                   EXCEPT !.current_text =
                              (IF st.current_text # <<>>
                               THEN last_chars(st.current_text, self.chunk_overlap)
                               ELSE <<>>) \o <<NL, NL>> \o element_text,
                          !.current_clause = elems[i].number]
             ELSE [st EXCEPT !.current_text = @ \o <<NL, NL>> \o element_text,
                             !.current_clause = elems[i].number]

RECURSIVE clause_loop(_, _, _, _, _)
clause_loop(self, text, elems, i, st) ==
    IF i > Len(elems) THEN st
    ELSE clause_loop(self, text, elems, i + 1, clause_step(self, text, elems, i, st))

\* the end of _chunk_by_clauses: the chunk of what is left after the loop
last_clause_chunk(st) ==
    IF strip(st.current_text) # <<>>
    THEN emit_clause(st, IF st.current_clause # <<>> THEN "clause" ELSE "text").chunks
    ELSE st.chunks

\* _chunk_by_clauses once the matches of the two patterns are found
chunk_elements(self, text, clause_matches, section_matches) ==
    IF clause_matches = <<>> THEN <<>>
    ELSE last_clause_chunk(
             clause_loop(self, text, elements(section_matches, clause_matches), 1,
                         [chunks |-> <<>>, chunk_index |-> 0, current_text |-> <<>>,
                          current_clause |-> <<>>, current_section |-> <<>>,
                          current_section_title |-> <<>>]))

\* _chunk_by_clauses
_chunk_by_clauses(self, text) ==
    chunk_elements(self, text, finditer("clause", text, 1), finditer("section", text, 1))

\* the plain chunk of the text accumulated so far
emit_text(st) == emit(st, <<>>, <<>>, <<>>, 0, "text")

\* one turn of the loop of _simple_chunk, on one paragraph
simple_step(self, paragraph, st) ==
    LET para == strip(paragraph)
    IN  IF para = <<>> THEN st
        ELSE IF Len(st.current_text) + Len(para) > self.chunk_size
             THEN [(IF st.current_text # <<>>
                    THEN [emit_text(st) EXCEPT !.chunk_index = next_index(@)]
                    ELSE st)
                   EXCEPT !.current_text =
                              (IF st.current_text # <<>>
                               THEN last_chars(st.current_text, self.chunk_overlap)
                               ELSE <<>>) \o <<NL, NL>> \o para]
             ELSE [st EXCEPT !.current_text = IF @ # <<>> THEN @ \o <<NL, NL>> \o para
                                              ELSE para]

RECURSIVE simple_loop(_, _, _, _)
simple_loop(self, paragraphs, i, st) ==
    IF i > Len(paragraphs) THEN st
    ELSE simple_loop(self, paragraphs, i + 1, simple_step(self, paragraphs[i], st))

\* the end of _simple_chunk: the chunk of what is left after the loop, unless
\* it is shorter than min_chunk_size
last_text_chunk(self, st) ==
    IF strip(st.current_text) # <<>> /\ Len(strip(st.current_text)) >= self.min_chunk_size
    THEN emit_text(st).chunks
    ELSE st.chunks

\* _simple_chunk
_simple_chunk(self, text) ==
    last_text_chunk(self, simple_loop(self, split(text), 1,
                                      [chunks |-> <<>>, chunk_index |-> 0,
                                       current_text |-> <<>>]))

\* the end of chunk_text: the structural chunks, the simple chunks when there is
\* at most one
or_simple_chunk(self, text, chunks) ==
    IF Len(chunks) <= 1 THEN _simple_chunk(self, text) ELSE chunks

\* chunk_text
chunk_text(self, text) == or_simple_chunk(self, text, _chunk_by_clauses(self, text))

(***************************************************************************)
(* The documents and configurations chunked                                *)
(***************************************************************************)
MaxPieces == 3

MaxChunkCalls == 3

\* what the documents are made of: clause lines with and without a dot after the
\* last numeral group, a section line, a bare clause number, running text, a
\* paragraph break and a space
Pieces == {<<"1", ".", " ", "a", NL>>,
           <<"1", ".", "2", ".", " ", "b", NL>>,
           <<"1", ".", "1", " ", "c", NL>>,
           <<"P", "a", "r", "t", " ", "2", ":", " ", "e", NL>>,
           <<"1", ".">>,
           <<"d", "d", "d", "d", "d">>,
           <<NL, NL>>,
           <<" ">>}

RECURSIVE Concat(_)
Concat(ps) == IF ps = <<>> THEN <<>> ELSE Head(ps) \o Concat(Tail(ps))

\* "1. Intro text.\n\n1.1 Sub clause text."
NestedClauseText ==
    <<"1", ".", " ", "I", "n", "t", "r", "o", " ", "t", "e", "x", "t", ".", NL, NL, "1",
      ".", "1", " ", "S", "u", "b", " ", "c", "l", "a", "u", "s", "e", " ", "t", "e", "x",
      "t", ".">>

Texts == {Concat(ps) : ps \in UNION {[1..n -> Pieces] : n \in 0..MaxPieces}}
         \cup {NestedClauseText}

ChunkSizes == {5, 12}

ChunkOverlaps == {0, 1, 5}

MinChunkSizes == {0, 6}

managerVars == <<tasks, objects, pause_events, executors, calls, published, cache, redis_up,
                 leaked, now, ret>>

\* ChunkingService.__init__, for at most `instances` instances
ChunkingService(instances, chunk_size, chunk_overlap, min_chunk_size) ==
    /\ Len(chunker.services) < instances
    /\ chunker' = [chunker EXCEPT
                      !.services = Append(@, [chunk_size |-> chunk_size,
                                              chunk_overlap |-> chunk_overlap,
                                              min_chunk_size |-> min_chunk_size]),
                      !.built = Append(@, <<chunk_size, chunk_overlap, min_chunk_size>>)]
    /\ UNCHANGED <<managerVars, a2a, sessions>>

\* chunk_text leaving a smaller chunk_size on the instance it ran on
after_chunk_text_resized(services, i) == [services EXCEPT ![i].chunk_size = 1]

\* the instances after a chunk_text call on instance i: no attribute is assigned
after_chunk_text(services, i) == services

\* a chunk_text call on instance i, for at most `most` calls
chunk_text_call(i, text, most) ==
    /\ i \in 1..Len(chunker.services)
    /\ Len(chunker.log) < most
    /\ chunker' = [chunker EXCEPT
                      !.log = Append(@, [instance |-> i,
                                         text |-> text,
                                         chunks |-> chunk_text(chunker.services[i], text)]),
                      !.services = after_chunk_text(@, i)]
    /\ UNCHANGED <<managerVars, a2a, sessions>>

\* one instance of every configuration, one call on every document
NextChunk ==
    \/ \E cs \in ChunkSizes, co \in ChunkOverlaps, mn \in MinChunkSizes :
          ChunkingService(1, cs, co, mn)
    \/ \E text \in Texts : chunk_text_call(1, text, 1)

SpecChunk == Init /\ [][NextChunk]_vars

\* the documents of the repeated calls: two clauses, two paragraphs
CallTexts == {Concat(<<<<"1", ".", " ", "a", NL>>, <<"1", ".", "2", ".", " ", "b", NL>>>>),
              Concat(<<<<"d", "d", "d", "d", "d">>, <<NL, NL>>, <<"d", "d", "d", "d", "d">>>>)}

\* two instances, of equal or different chunk_size, and a few calls on them in
\* any order
NextChunkCalls ==
    \/ \E cs \in ChunkSizes : ChunkingService(2, cs, 1, 0)
    \/ \E i \in 1..2, text \in CallTexts : chunk_text_call(i, text, MaxChunkCalls)

SpecChunkCalls == Init /\ [][NextChunkCalls]_vars

(***************************************************************************)
(* The A2A server (src/src/a2a/server.py).  The routes are coroutines of   *)
(* the same event loop; none awaits, so each is one action.  _execute_task *)
(* is scheduled by submit_task and runs up to its only await, that of      *)
(* _dispatch_skill, before any later request is served; it is split there. *)
(***************************************************************************)
A2AIds == {"a1", "a2"}

\* the task_id path parameter of the routes: "a0" is never submitted
A2ARequestIds == A2AIds \cup {"a0"}

\* a skill of the agent card and one it does not have
AgentSkills == {"contract_qa"}

SkillArgs == AgentSkills \cup {"no_such_skill"}

\* what _dispatch_skill returns, and the message of what it raises
SkillResults == {"answer"}

SkillErrors == {"agent failed"}

A2A_PENDING == "pending"

A2A_RUNNING == "running"

A2A_COMPLETED == "completed"

A2A_FAILED == "failed"

A2A_CANCELLED == "cancelled"

INPUT_REQUIRED == "input_required"

TaskState == {A2A_PENDING, A2A_RUNNING, A2A_COMPLETED, A2A_FAILED, A2A_CANCELLED,
              INPUT_REQUIRED}

\* A2ATask(id, skill_id, input_data) at time t
A2ATask(skill_id, t) ==
    [skill_id |-> skill_id, state |-> A2A_PENDING, output |-> None, error |-> None,
     created_at |-> t, updated_at |-> t]

\* the answer of a route: its HTTP status
Responds(status) == a2a' = [a2a EXCEPT !.response = status]

\* _execute_task up to the await of _dispatch_skill
_execute_task_begin(o, t) == [o EXCEPT !.state = A2A_RUNNING, !.updated_at = t]

\* _execute_task after _dispatch_skill has returned
_execute_task_try(o, result, t) ==
    [o EXCEPT !.output = result, !.state = A2A_COMPLETED, !.updated_at = t]

\* _execute_task after _dispatch_skill has raised
_execute_task_except(o, e, t) ==
    [o EXCEPT !.state = A2A_FAILED, !.error = e, !.updated_at = t]

\* POST /a2a/tasks: the task is created and registered, _execute_task is
\* scheduled and runs up to its await
a2a_submit_task(skill_id) ==
    /\ IF skill_id \notin AgentSkills
       THEN Responds(400)
       ELSE \E id \in A2AIds \ DOMAIN a2a.objects :
               a2a' = [a2a EXCEPT
                          !.tasks = @ \cup {id},
                          !.objects = Put(@, id, _execute_task_begin(A2ATask(skill_id, now), now)),
                          !.runs = Put(@, id, "dispatching"),
                          !.response = 202]
    /\ UNCHANGED <<managerVars, chunker, sessions>>

\* _dispatch_skill returns to the _execute_task run of task id
a2a_dispatch_returns(id, result) ==
    /\ id \in DOMAIN a2a.runs
    /\ a2a.runs[id] = "dispatching"
    /\ a2a' = [a2a EXCEPT !.objects[id] = _execute_task_try(@, result, now),
                          !.runs[id] = "returned"]
    /\ UNCHANGED <<managerVars, chunker, sessions>>

\* _dispatch_skill raises in the _execute_task run of task id
a2a_dispatch_raises(id, e) ==
    /\ id \in DOMAIN a2a.runs
    /\ a2a.runs[id] = "dispatching"
    /\ a2a' = [a2a EXCEPT !.objects[id] = _execute_task_except(@, e, now),
                          !.runs[id] = "returned"]
    /\ UNCHANGED <<managerVars, chunker, sessions>>

\* POST /a2a/tasks/{task_id}/cancel
a2a_cancel_task(id) ==
    /\ IF id \notin a2a.tasks THEN Responds(404)
       ELSE IF a2a.objects[id].state \in {A2A_COMPLETED, A2A_FAILED, A2A_CANCELLED}
            THEN Responds(400)
       ELSE a2a' = [a2a EXCEPT !.objects[id].state = A2A_CANCELLED,
                               !.objects[id].updated_at = now,
                               !.response = 200]
    /\ UNCHANGED <<managerVars, chunker, sessions>>

\* DELETE /a2a/tasks/{task_id}
a2a_delete_task(id) ==
    /\ IF id \notin a2a.tasks THEN Responds(404)
       ELSE a2a' = [a2a EXCEPT !.tasks = @ \ {id}, !.response = 200]
    /\ UNCHANGED <<managerVars, chunker, sessions>>

\* the clock of the A2A server
a2a_tick ==
    /\ now < MaxClock
    /\ now' = now + 1
    /\ UNCHANGED <<tasks, objects, pause_events, executors, calls, published, cache, redis_up,
                   leaked, ret, chunker, a2a, sessions>>

NextA2A ==
    \/ a2a_tick
    \/ \E skill_id \in SkillArgs : a2a_submit_task(skill_id)
    \/ \E id \in A2AIds, result \in SkillResults : a2a_dispatch_returns(id, result)
    \/ \E id \in A2AIds, e \in SkillErrors : a2a_dispatch_raises(id, e)
    \/ \E id \in A2ARequestIds : a2a_cancel_task(id)
    \/ \E id \in A2ARequestIds : a2a_delete_task(id)

SpecA2A == Init /\ [][NextA2A]_vars

(***************************************************************************)
(* The session store (src/src/memory/session_service.py).  Every Redis     *)
(* command of the SessionManager is awaited, and other coroutines run      *)
(* between two commands: an operation is split at the commands that read   *)
(* or write the session:{id} and history:{id} keys.  EXPIRE only renews a  *)
(* time-to-live, which is not followed, and goes with the command before   *)
(* it.  The stored JSON holds strings and lists of strings only, which     *)
(* json.dumps and json.loads give back unchanged.                          *)
(***************************************************************************)
MaxSessionOps == 3

SessionIds == {"s1"}

ContextKeys == {"k1", "k2"}

ContextValues == {"v1"}

DocumentLists == {<<"d1">>}

Contents == {"hi"}

\* the None that get_session returns, and that a coroutine holds before it has
\* read a context
NoContext == <<>>

\* SessionContext(session_id) at time t
SessionContext(t) ==
    [active_documents |-> <<>>, context_data |-> <<>>, created_at |-> t, last_activity |-> t]

\* a SessionManager coroutine: the operation, its arguments, where it is, the
\* SessionContext it holds, what it returned, and whether it pushed a turn
SessionOp(op, sid, pc) ==
    [op |-> op, sid |-> sid, pc |-> pc, key |-> None, value |-> None, documents |-> <<>>,
     content |-> None, context |-> NoContext, ret |-> FALSE, pushed |-> FALSE]

\* the coroutine returns
Return(o, value) == [o EXCEPT !.pc = "returned", !.ret = value]

\* r.get(session_key) of get_session: the stored context, None when the key is
\* not there
get_session(sid) ==
    IF sid \in DOMAIN sessions.session THEN sessions.session[sid] ELSE NoContext

\* create_session: the session key is set under a fresh uuid4
create_session(sid) ==
    /\ sid \notin sessions.created
    /\ sessions' = [sessions EXCEPT !.session = Put(@, sid, SessionContext(now)),
                                    !.created = @ \cup {sid}]
    /\ UNCHANGED <<managerVars, chunker, a2a>>

\* update_context up to the answer of get_session: False without a session,
\* else the key is assigned in the context it holds
update_context(sid, key, value) ==
    /\ Len(sessions.ops) < MaxSessionOps
    /\ sessions' = [sessions EXCEPT !.ops = Append(@,
           IF get_session(sid) = NoContext
           THEN Return(SessionOp("update_context", sid, "get_session"), FALSE)
           ELSE [SessionOp("update_context", sid, "_save_session") EXCEPT
                    !.key = key, !.value = value,
                    !.context = [get_session(sid) EXCEPT !.context_data = Put(@, key, value)]])]
    /\ UNCHANGED <<managerVars, chunker, a2a>>

\* set_active_documents up to the answer of get_session
set_active_documents(sid, document_ids) ==
    /\ Len(sessions.ops) < MaxSessionOps
    /\ sessions' = [sessions EXCEPT !.ops = Append(@,
           IF get_session(sid) = NoContext
           THEN Return(SessionOp("set_active_documents", sid, "get_session"), FALSE)
           ELSE [SessionOp("set_active_documents", sid, "_save_session") EXCEPT
                    !.documents = document_ids,
                    !.context = [get_session(sid) EXCEPT !.active_documents = document_ids]])]
    /\ UNCHANGED <<managerVars, chunker, a2a>>

\* add_message up to the answer of r.exists(session_key)
add_message(sid, content) ==
    /\ Len(sessions.ops) < MaxSessionOps
    /\ sessions' = [sessions EXCEPT !.ops = Append(@,
           IF sid \notin DOMAIN sessions.session
           THEN Return(SessionOp("add_message", sid, "exists"), FALSE)
           ELSE [SessionOp("add_message", sid, "rpush") EXCEPT !.content = content])]
    /\ UNCHANGED <<managerVars, chunker, a2a>>

\* add_message: r.rpush(history_key, turn), which makes the list when the key
\* is not there
add_message_rpush(i) ==
    /\ i \in 1..Len(sessions.ops)
    /\ sessions.ops[i].pc = "rpush"
    /\ LET sid == sessions.ops[i].sid
           old == IF sid \in DOMAIN sessions.history THEN sessions.history[sid] ELSE <<>>
       IN  sessions' = [sessions EXCEPT
                           !.history = Put(@, sid, Append(old, sessions.ops[i].content)),
                           !.ops[i].pushed = TRUE,
                           !.ops[i].pc = "_update_last_activity"]
    /\ UNCHANGED <<managerVars, chunker, a2a>>

\* add_message: the get_session of _update_last_activity; without a session
\* nothing is saved and add_message returns True
_update_last_activity(i) ==
    /\ i \in 1..Len(sessions.ops)
    /\ sessions.ops[i].pc = "_update_last_activity"
    /\ sessions' = [sessions EXCEPT
                       !.ops[i] = IF get_session(sessions.ops[i].sid) = NoContext
                                  THEN Return(@, TRUE)
                                  ELSE [@ EXCEPT
                                           !.context = get_session(sessions.ops[i].sid),
                                           !.pc = "_save_session"]]
    /\ UNCHANGED <<managerVars, chunker, a2a>>

\* _save_session: the context the coroutine holds is written whole, with a new
\* last_activity; the operation then returns True
_save_session(i) ==
    /\ i \in 1..Len(sessions.ops)
    /\ sessions.ops[i].pc = "_save_session"
    /\ sessions' = [sessions EXCEPT
                       !.session = Put(@, sessions.ops[i].sid,
                                       [sessions.ops[i].context EXCEPT !.last_activity = now]),
                       !.ops[i] = Return(@, TRUE)]
    /\ UNCHANGED <<managerVars, chunker, a2a>>

\* delete_session: r.delete(session_key, history_key), one Redis command
delete_session(sid) ==
    /\ Len(sessions.ops) < MaxSessionOps
    /\ sessions' = [sessions EXCEPT
                       !.session = Pop(@, sid),
                       !.history = Pop(@, sid),
                       !.ops = Append(@, Return(SessionOp("delete_session", sid, "delete"),
                                                 sid \in DOMAIN sessions.session
                                                     \/ sid \in DOMAIN sessions.history))]
    /\ UNCHANGED <<managerVars, chunker, a2a>>

\* the clock of the session store
session_tick ==
    /\ now < MaxClock
    /\ now' = now + 1
    /\ UNCHANGED <<tasks, objects, pause_events, executors, calls, published, cache, redis_up,
                   leaked, ret, chunker, a2a, sessions>>

NextSessions ==
    \/ session_tick
    \/ \E sid \in SessionIds : create_session(sid)
    \/ \E sid \in SessionIds, key \in ContextKeys, value \in ContextValues :
          update_context(sid, key, value)
    \/ \E sid \in SessionIds, document_ids \in DocumentLists :
          set_active_documents(sid, document_ids)
    \/ \E sid \in SessionIds, content \in Contents : add_message(sid, content)
    \/ \E i \in 1..MaxSessionOps : add_message_rpush(i)
    \/ \E i \in 1..MaxSessionOps : _update_last_activity(i)
    \/ \E i \in 1..MaxSessionOps : _save_session(i)
    \/ \E sid \in SessionIds : delete_session(sid)

SpecSessions == Init /\ [][NextSessions]_vars

(***************************************************************************)
(* Properties                                                              *)
(***************************************************************************)
StatusOf(t) == objects[t].status

\* an executor unit of work that has been created and is not done
InFlight(c) == calls[c].pc = "awaiting" /\ calls[c].inner \in InnerInFlight

\* C1: once a task's status is COMPLETED, FAILED or CANCELLED, no step of the
\* manager, of the API or of an executor changes it.
C1_TerminalStatusIsFinal ==
    [][\A t \in DOMAIN objects :
          StatusOf(t) \in Terminal => objects'[t].status = StatusOf(t)]_vars

\* the edges of the state diagram
DiagramEdges ==
    {<<PENDING, RUNNING>>,
     <<RUNNING, PAUSED>>, <<RUNNING, WAITING_INPUT>>, <<RUNNING, COMPLETED>>,
     <<RUNNING, FAILED>>, <<RUNNING, CANCELLED>>,
     <<PAUSED, RUNNING>>, <<PAUSED, CANCELLED>>,
     <<WAITING_INPUT, RUNNING>>}

\* C2: every change of a task's status follows an edge of the state diagram.
C2_StatusFollowsDiagram ==
    [][\A t \in DOMAIN objects :
          objects'[t].status # StatusOf(t) =>
              <<StatusOf(t), objects'[t].status>> \in DiagramEdges]_vars

\* C3: at every moment a task has at most one in-flight executor unit of work.
C3_AtMostOneExecutorInFlight ==
    \A t \in TaskIds : Cardinality({c \in CallIds : calls[c].tid = t /\ InFlight(c)}) <= 1

\* C4: an execute_task call whose executor was blocked on the gate (in check_pause
\* or in request_input) when cancel_task was accepted returns with the task's
\* status CANCELLED.
C4_CancelledWaiterReturnsCancelled ==
    [][\A c \in CallIds :
          execute_task_return(c) /\ calls[c].waited =>
              StatusOf(calls[c].tid) = CANCELLED]_vars

\* C5: when the executor has raised, execute_task does not raise: it sets the
\* status to FAILED, stores the exception's message in error, leaves output as it
\* was, and goes on to its normal return.  The only exception execute_task lets
\* out is the one for an unknown id, before any executor exists.
C5_ExecutorFailureIsCaptured ==
    /\ [][\A c \in CallIds :
            execute_task_finish(c) /\ calls[c].inner = "done_exc" =>
                /\ objects'[calls[c].tid].status = FAILED
                /\ objects'[calls[c].tid].error = calls[c].value
                /\ objects'[calls[c].tid].output_data = objects[calls[c].tid].output_data
                /\ calls'[c].pc = "finishing"]_vars
    /\ [](\A c \in CallIds : calls[c].pc = "raised" => calls[c].inner = "none")

\* C5 witness: an execute_task call whose executor raised has returned and the
\* task is FAILED with the message and no output.
C5_Witness ==
    \E c \in CallIds :
        /\ calls[c].pc = "returned" /\ calls[c].inner = "done_exc"
        /\ StatusOf(calls[c].tid) = FAILED
        /\ objects[calls[c].tid].error = calls[c].value
        /\ objects[calls[c].tid].output_data = None

\* C6: when the executor has returned v, execute_task stores v as output and
\* returns with the status COMPLETED and error unset; no other step makes a task
\* COMPLETED.
C6_NormalReturnCompletes ==
    [][/\ \A c \in CallIds :
            execute_task_return(c) /\ calls[c].inner = "done_ok" =>
                /\ StatusOf(calls[c].tid) = COMPLETED
                /\ objects[calls[c].tid].output_data = calls[c].value
                /\ objects[calls[c].tid].error = None
       /\ \A t \in DOMAIN objects :
            objects'[t].status = COMPLETED /\ StatusOf(t) # COMPLETED =>
                \E c \in CallIds : execute_task_finish(c) /\ calls[c].inner = "done_ok"]_vars

\* C7: in a terminal status exactly one of output and error is set.
C7_ExactlyOneOfOutputAndError ==
    \A t \in DOMAIN objects :
        StatusOf(t) \in Terminal =>
            (objects[t].output_data # None) # (objects[t].error # None)

\* C8: once set, started_at is never assigned again.
C8_StartedAtSetOnce ==
    [][\A t \in DOMAIN objects :
          objects[t].started_at # <<>> => objects'[t].started_at = objects[t].started_at]_vars

RejectedFrame ==
    /\ ret' = FALSE
    /\ UNCHANGED <<tasks, objects, pause_events, executors, calls, published, cache>>

\* C10: pause_task on a task that is not RUNNING, resume_task on one that is not
\* PAUSED, provide_input on one that is not WAITING_INPUT, and each of these and
\* cancel_task on an unknown id, return false and change neither the task (status,
\* user_input, pending prompt and schema, updated_at), nor the gate, nor the
\* number of published snapshots.
C10_RejectedOperationChangesNothing ==
    [][\A t \in RequestIds :
          /\ pause_task(t) /\ (t \notin tasks \/ StatusOf(t) # RUNNING) => RejectedFrame
          /\ resume_task(t) /\ (t \notin tasks \/ StatusOf(t) # PAUSED) => RejectedFrame
          /\ (\E d \in Inputs : provide_input(t, d)) /\ (t \notin tasks \/ StatusOf(t) # WAITING_INPUT)
                => RejectedFrame
          /\ cancel_task(t) /\ t \notin tasks => RejectedFrame]_vars

\* C10 witness: the task is PAUSED, which pause_task answered with true, and the
\* last convenience operation since then was rejected.
C10_Witness ==
    \E t \in tasks : StatusOf(t) = PAUSED /\ ret = FALSE /\ ~pause_events[t]

\* the gate of t is closed
GateClosed(t) == t \in DOMAIN pause_events /\ ~pause_events[t]

\* C11: pause is cooperative through the gate.  pause_task accepted on a RUNNING
\* task closes the gate and sets PAUSED; check_pause on a closed gate blocks and
\* on an open gate goes on at once; an executor blocked in check_pause goes on
\* only in a step in which resume_task or cancel_task is accepted for its task;
\* resume_task accepted on a PAUSED task opens the gate and sets RUNNING.
C11_PauseIsCooperative ==
    [][/\ \A t \in RequestIds :
            /\ pause_task(t) /\ ~pause_task_rejects(t) =>
                  ~pause_events'[t] /\ objects'[t].status = PAUSED
            /\ resume_task(t) /\ ~resume_task_rejects(t) =>
                  pause_events'[t] /\ objects'[t].status = RUNNING
       /\ \A c \in CallIds :
            /\ ctx_check_pause(c) =>
                  calls'[c].inner = IF GateClosed(calls[c].tid) THEN "blocked_pause" ELSE "run"
            /\ calls[c].inner = "blocked_pause" /\ calls'[c].inner # "blocked_pause" =>
                  \/ resume_task(calls[c].tid) /\ ~resume_task_rejects(calls[c].tid)
                  \/ cancel_task(calls[c].tid) /\ ~cancel_task_rejects(calls[c].tid)]_vars

\* a step in which TaskContext.request_input returns to the executor of call c
RequestInputReturns(c) ==
    \/ ctx_read_input(c)
    \/ ctx_await_input(c) /\ calls'[c].inner = "run"

\* C12: a TaskContext.request_input call returns only after a provide_input call
\* for its task was accepted since the request was made, and it returns the
\* input_data of that call; without one (the task cancelled instead) it returns
\* no value.
C12_RequestInputReturnsProvidedInput ==
    [][\A c \in CallIds :
          RequestInputReturns(c) =>
              calls[c].fed # None /\ calls'[c].got = calls[c].fed]_vars

\* C13: in every state a task's pending_input_prompt and pending_input_schema
\* are set only while its status is WAITING_INPUT.
C13_PendingInputOnlyWhileWaiting ==
    \A t \in DOMAIN objects :
        StatusOf(t) # WAITING_INPUT =>
            objects[t].pending_input_prompt = None /\ objects[t].pending_input_schema = None

\* C14: after every update_progress call on a registered task, with any subset
\* of fields provided, the percentage equals 100 * current_step / total_steps
\* when total_steps > 0 and equals 0 when total_steps = 0.
C14_PercentageFollowsSteps ==
    [][\A c \in CallIds, cs \in ProgressSteps, ts \in ProgressTotals,
          msg \in OptMessages, det \in OptDetails :
          ctx_update_progress(c, cs, ts, msg, det) /\ Registered(calls[c].tid) =>
              LET p == objects'[calls[c].tid].progress IN
                  /\ p.total_steps > 0 =>
                        p.percentage[1] * p.total_steps = 100 * p.current_step * p.percentage[2]
                  /\ p.total_steps = 0 => p.percentage[1] = 0]_vars

\* the in-memory change and the result of each manager operation, as made with
\* a healthy collaborator
SameAsHealthy ==
    /\ create_task =>
          \E t \in TaskIds \ tasks :
              tasks' = tasks \cup {t} /\ objects'[t] = LongRunningTask(now) /\ pause_events'[t]
    /\ \A c \in CallIds :
          /\ \A t \in tasks : api_execute_task(c, t) =>
                objects'[t] = execute_task_begin(objects[t], now) /\ calls'[c].pc = "started"
          /\ execute_task_finish(c) =>
                /\ objects'[calls[c].tid] =
                      execute_task_end(objects[calls[c].tid], calls[c].inner, calls[c].value, now)
                /\ calls'[c].pc = "finishing"
          /\ Registered(calls[c].tid) =>
                /\ \A cs \in OptSteps, ts \in OptTotals :
                      ctx_update_progress(c, cs, ts, None, None) =>
                          objects'[calls[c].tid] = update_progress(objects[calls[c].tid], cs, ts, None, None, now)
                /\ \A pr \in Prompts, sc \in Schemas :
                      ctx_request_input(c, pr, sc) =>
                          /\ objects'[calls[c].tid] = request_input(objects[calls[c].tid], pr, sc, now)
                          /\ ~pause_events'[calls[c].tid]
                /\ \A d \in CheckpointData :
                      ctx_checkpoint(c, d) => objects'[calls[c].tid].checkpoint_data = d
    /\ \A t \in RequestIds :
          /\ pause_task(t) =>
                /\ ret' = ~pause_task_rejects(t)
                /\ ret' => objects'[t].status = PAUSED /\ ~pause_events'[t]
          /\ resume_task(t) =>
                /\ ret' = ~resume_task_rejects(t)
                /\ ret' => objects'[t].status = RUNNING /\ pause_events'[t]
          /\ cancel_task(t) =>
                /\ ret' = ~cancel_task_rejects(t)
                /\ ret' => objects'[t].status = CANCELLED /\ pause_events'[t]
          /\ \A d \in Inputs : provide_input(t, d) =>
                /\ ret' = ~provide_input_rejects(t)
                /\ ret' => objects'[t] = provide_input_task(objects[t], d, now) /\ pause_events'[t]

C17_GatesMatchRegistry == DOMAIN pause_events = tasks

\* what an operation on an id that is not registered must leave alone
UnknownFrame == UNCHANGED <<tasks, objects, pause_events, published, cache>>

\* C18: a task leaves the registry only by an accepted delete request and only
\* in a terminal status.  A delete request for a PENDING, RUNNING, PAUSED or
\* WAITING_INPUT task (or for an unknown id) is rejected and changes nothing; one
\* for a COMPLETED, FAILED or CANCELLED task removes exactly that task.  A removed
\* id never comes back, and every manager operation called for it afterwards
\* treats it as unknown: the convenience operations return false, execute is
\* refused, update_progress, request_input and checkpoint do nothing.
C18_DeleteOnlyWhenTerminal ==
    [][/\ \A t \in tasks \ tasks' : StatusOf(t) \in Terminal /\ api_delete_task(t)
       /\ \A t \in RequestIds :
            api_delete_task(t) =>
                IF t \in tasks /\ StatusOf(t) \in {COMPLETED, FAILED, CANCELLED}
                THEN tasks' = tasks \ {t} /\ ret' = TRUE
                ELSE RejectedFrame
       /\ \A t \in DOMAIN objects \ tasks :
            /\ t \notin tasks'
            /\ pause_task(t) \/ resume_task(t) \/ cancel_task(t) \/ api_delete_task(t)
                  \/ (\E d \in Inputs : provide_input(t, d)) => RejectedFrame
            /\ \A c \in CallIds :
                  /\ ~api_execute_task(c, t)
                  /\ calls[c].tid = t =>
                        /\ (\E cs \in OptSteps, ts \in OptTotals :
                               ctx_update_progress(c, cs, ts, None, None)) => UnknownFrame
                        /\ (\E pr \in Prompts, sc \in Schemas :
                               ctx_request_input(c, pr, sc)) => UnknownFrame
                        /\ (\E d \in CheckpointData : ctx_checkpoint(c, d)) => UnknownFrame]_vars

\* C18 witness: a task was deleted in a terminal status and an operation called
\* afterwards was rejected.
C18_Witness ==
    \E t \in DOMAIN objects \ tasks : StatusOf(t) \in Terminal /\ ret = FALSE

\* C19: create_task registers exactly one task, under an id that was not in the
\* registry (nor handed out before); the task is PENDING with started_at,
\* completed_at, output and error unset, its gate is open, and exactly one
\* snapshot, of status pending, has been published for it.
C19_CreateTaskContract ==
    [][create_task_registry =>
          \E t \in RegistryIds \ tasks :
              /\ t \notin DOMAIN objects
              /\ tasks' = tasks \cup {t}
              /\ objects'[t].status = PENDING
              /\ objects'[t].started_at = <<>> /\ objects'[t].completed_at = <<>>
              /\ objects'[t].output_data = None /\ objects'[t].error = None
              /\ t \in DOMAIN pause_events' /\ pause_events'[t]
              /\ published'[t] = [count |-> 1, status |-> PENDING, delivered |-> TRUE]
              /\ \A u \in tasks :
                    objects'[u] = objects[u] /\ published'[u] = published[u]
                    /\ pause_events'[u] = pause_events[u]]_vars

\* C19 witness: a second task was created after the first, still in the
\* registry, had been cancelled; the new one is PENDING, unstarted, with an open
\* gate and one published snapshot.
C19_Witness ==
    \E t, u \in tasks :
        /\ t # u /\ StatusOf(u) = CANCELLED /\ objects[u].updated_at < objects[t].created_at
        /\ StatusOf(t) = PENDING /\ objects[t].started_at = <<>>
        /\ pause_events[t] /\ published[t].count = 1

\* C20: update_progress on a registered task overwrites those of current_step,
\* total_steps, message and details that are provided and leaves the others of
\* the four as they were; it changes neither the status, the gate, the output,
\* the error nor the pending input; it sets updated_at and publishes exactly one
\* snapshot.  For an id that is not registered it changes nothing and the
\* executor goes on.
C20_UpdateProgressIsPartial ==
    [][\A c \in CallIds, cs \in ProgressSteps, ts \in ProgressTotals,
          msg \in OptMessages, det \in OptDetails :
          ctx_update_progress(c, cs, ts, msg, det) =>
              LET t == calls[c].tid IN
                  IF t \in tasks
                  THEN LET o == objects[t]
                           n == objects'[t]
                       IN /\ n.progress.current_step =
                                IF cs = <<>> THEN o.progress.current_step ELSE cs[1]
                          /\ n.progress.total_steps =
                                IF ts = <<>> THEN o.progress.total_steps ELSE ts[1]
                          /\ n.progress.message = IF msg = None THEN o.progress.message ELSE msg
                          /\ n.progress.details = IF det = None THEN o.progress.details ELSE det
                          /\ n.status = o.status
                          /\ n.output_data = o.output_data /\ n.error = o.error
                          /\ n.pending_input_prompt = o.pending_input_prompt
                          /\ n.pending_input_schema = o.pending_input_schema
                          /\ n.user_input = o.user_input
                          /\ n.updated_at = now
                          /\ published'[t].count = published[t].count + 1
                          /\ UNCHANGED <<tasks, pause_events, calls>>
                  ELSE UNCHANGED <<tasks, objects, pause_events, published, cache, calls>>]_vars

\* C20 witness: after updates that provided current_step, total_steps and message
\* but never details, the task has the provided values, the default details and
\* its status RUNNING.
C20_Witness ==
    \E t \in tasks :
        /\ StatusOf(t) = RUNNING
        /\ objects[t].progress.current_step = 3 /\ objects[t].progress.total_steps = 4
        /\ objects[t].progress.message = "m1" /\ objects[t].progress.details = "{}"
        /\ published[t].count >= 3

\* ---------------------------------------------------------------------------
\* Checkpoints
\* ---------------------------------------------------------------------------
CheckpointKey(t) == <<"checkpoint", t>>

\* what checkpoint never touches, whatever the id
CheckpointFrame(t) ==
    /\ t \in DOMAIN objects => objects'[t].status = objects[t].status
    /\ pause_events' = pause_events
    /\ tasks' = tasks

\* C21 as stated: after checkpoint(task_id, d) on a registered task get_checkpoint
\* returns d and the cache holds d under the task's checkpoint key, whatever
\* the payload and whatever the state of Redis; status and gate are untouched
\* and an unknown id changes nothing.
C21_CheckpointAlwaysCached ==
    [][\A c \in CallIds, d \in CheckpointArgs :
            ctx_checkpoint(c, d) =>
                LET t == calls[c].tid IN
                /\ CheckpointFrame(t)
                /\ IF Registered(t)
                   THEN /\ get_checkpoint(objects', t) = d
                        /\ CheckpointKey(t) \in DOMAIN cache'
                        /\ cache'[CheckpointKey(t)] = d
                   ELSE UNCHANGED <<objects, cache>>]_vars

\* C21 (amended): after checkpoint(task_id, d) on a registered task get_checkpoint
\* returns exactly d, the payload of the most recent call; the cache holds d
\* under the task's checkpoint key when the write succeeded (d serialises and
\* Redis answered) and is left as it was otherwise; nothing but the payload
\* changes in the task, status and gate are untouched, and an unknown id
\* changes nothing.
C21_CheckpointOverwrites ==
    [][\A c \in CallIds, d \in CheckpointArgs :
            ctx_checkpoint(c, d) =>
                LET t == calls[c].tid IN
                /\ CheckpointFrame(t)
                /\ IF Registered(t)
                   THEN /\ get_checkpoint(objects', t) = d
                        /\ objects' = [objects EXCEPT ![t].checkpoint_data = d]
                        /\ IF SetFailure(d) = None
                           THEN cache' = Put(cache, CheckpointKey(t), d)
                           ELSE cache' = cache
                   ELSE UNCHANGED <<objects, cache>>]_vars

\* a second checkpoint has replaced the payload of the first in the task while
\* its cache write failed: the cache still holds the first payload
C21_Witness ==
    \E t \in tasks :
        /\ get_checkpoint(objects, t) = "ck2"
        /\ CheckpointKey(t) \in DOMAIN cache
        /\ cache[CheckpointKey(t)] = "ck1"
        /\ objects[t].status = RUNNING

\* ---------------------------------------------------------------------------
\* Listing
\* ---------------------------------------------------------------------------
Elements(seq) == {seq[i] : i \in 1..Len(seq)}

\* C22: list_tasks(status, user_id) returns exactly the registered tasks whose
\* status equals the given status (when one is given) and whose user_id equals
\* the given user_id (when one is given), each once, from the newest created_at
\* to the oldest.
C22_ListTasksFiltersExactly ==
    \A status \in StatusArgs, user_id \in UserIds :
        LET r == list_tasks(status, user_id) IN
        /\ Elements(r) = {t \in tasks : /\ status # None => objects[t].status = status
                                        /\ user_id # None => objects[t].user_id = user_id}
        /\ \A i, j \in 1..Len(r) : i < j =>
              r[i] # r[j] /\ objects[r[i]].created_at >= objects[r[j]].created_at

\* ---------------------------------------------------------------------------
\* Chunking
\* ---------------------------------------------------------------------------
\* the instance a logged chunk_text call was made on
ServiceOf(e) == chunker.services[e.instance]

Log == {chunker.log[i] : i \in 1..Len(chunker.log)}

\* the call took the structural path: chunk_text kept the chunks of _chunk_by_clauses
Structural(e) == Len(_chunk_by_clauses(ServiceOf(e), e.text)) > 1

\* the text _simple_chunk is left with after its loop
SimpleRest(e) ==
    strip(simple_loop(ServiceOf(e), split(e.text), 1,
                      [chunks |-> <<>>, chunk_index |-> 0, current_text |-> <<>>]).current_text)

\* _simple_chunk discarded its last chunk for being shorter than min_chunk_size
LastDiscarded(e) ==
    ~Structural(e) /\ SimpleRest(e) # <<>> /\ Len(SimpleRest(e)) < ServiceOf(e).min_chunk_size

\* C23: the chunk_index values of the chunks chunk_text returns are 0, 1, ...,
\* n-1 in the order of the chunks, whatever the text and the configuration.
C23_ChunkIndexIsContiguous ==
    \A e \in Log : \A k \in 1..Len(e.chunks) : e.chunks[k].chunk_index = k - 1

\* C23 witness: a call on the fallback path that returned a chunk and discarded
\* the last one it had built
C23_Witness ==
    \E e \in Log : LastDiscarded(e) /\ Len(e.chunks) >= 1

\* the maximal runs of digits in a clause number
NumeralGroups(number) ==
    Cardinality({i \in 1..Len(number) :
                    number[i] \in Digit /\ (i = 1 \/ number[i - 1] \notin Digit)})

\* C24: in every chunk chunk_text returns, hierarchy_level is 0 exactly when
\* clause_number is empty, and otherwise it is the number of dot-separated
\* numeral groups of clause_number; _get_hierarchy_level gives 1 for "1", 2 for
\* "1.1" and for "1.1.", 3 for "1.1.1".
C24_HierarchyLevelCountsGroups ==
    /\ \A e \in Log : \A k \in 1..Len(e.chunks) :
          LET c == e.chunks[k] IN
          /\ c.hierarchy_level = 0 <=> c.clause_number = <<>>
          /\ c.hierarchy_level = NumeralGroups(c.clause_number)
    /\ _get_hierarchy_level(<<"1">>) = 1
    /\ _get_hierarchy_level(<<"1", ".", "1">>) = 2
    /\ _get_hierarchy_level(<<"1", ".", "1", ".">>) = 2
    /\ _get_hierarchy_level(<<"1", ".", "1", ".", "1">>) = 3

\* C24 witness: a call that returned a chunk of the two-level clause 1.2 and a
\* chunk of the one-level clause 1
C24_Witness ==
    \E e \in Log : \E j, k \in 1..Len(e.chunks) :
        /\ e.chunks[j].clause_number = <<"1", ".", "2">> /\ e.chunks[j].hierarchy_level = 2
        /\ e.chunks[k].clause_number = <<"1">> /\ e.chunks[k].hierarchy_level = 1

\* the clause markers CLAUSE_PATTERN finds in the text of a call
ClauseMarkers(e) == finditer("clause", e.text, 1)

\* C25: chunk_text returns the result of the simple chunker exactly when the
\* text has no clause marker, and then every chunk has chunk_type "text" and an
\* empty clause_number; with at least one clause marker it returns the chunks
\* of the structural chunker, which carry clause metadata.
C25_PathDecidedByClauseMarkers ==
    \A e \in Log :
        IF ClauseMarkers(e) = <<>>
        THEN /\ e.chunks = _simple_chunk(ServiceOf(e), e.text)
             /\ \A k \in 1..Len(e.chunks) :
                   e.chunks[k].chunk_type = "text" /\ e.chunks[k].clause_number = <<>>
        ELSE /\ e.chunks = _chunk_by_clauses(ServiceOf(e), e.text)
             /\ \A k \in 1..Len(e.chunks) : e.chunks[k].clause_number # <<>>

\* the call chunked "1. Intro text.\n\n1.1 Sub clause text." with a chunk_size
\* that the two clauses together exceed
NestedClauseCall(e) == e.text = NestedClauseText /\ ServiceOf(e).chunk_size <= 35

\* C26: chunking "1. Intro text.\n\n1.1 Sub clause text." with a target size
\* small enough to force a flush gives at least 2 chunks, the second with
\* clause_number "1.1" and hierarchy_level 2.
C26_NestedClauseKeepsItsNumber ==
    \A e \in Log :
        NestedClauseCall(e) =>
            /\ Len(e.chunks) >= 2
            /\ e.chunks[2].clause_number = <<"1", ".", "1">>
            /\ e.chunks[2].hierarchy_level = 2

\* a occurs in b as a run of consecutive characters
IsInfix(a, b) == \E i \in 0..(Len(b) - Len(a)) : SubSeq(b, i + 1, i + Len(a)) = a

\* the trimmed text spans of the clause elements of a text, each from its marker
\* to the next element or to the end of the text
ClauseSpans(text) ==
    LET elems == elements(finditer("section", text, 1), finditer("clause", text, 1))
    IN  {strip(SubSeq(text, elems[i].pos,
                      (IF i + 1 <= Len(elems) THEN elems[i + 1].pos ELSE Len(text) + 1) - 1)) :
            i \in {j \in 1..Len(elems) : elems[j].type = "clause"}}

\* C27: for every text with clause markers, the text span of each clause
\* element is found whole, as one run of characters, in one of the returned
\* chunks, also when it is longer than chunk_size and when it is the only
\* clause of the text.
C27_ClauseIsNeverSplit ==
    \A e \in Log :
        \A span \in ClauseSpans(e.text) :
            \E k \in 1..Len(e.chunks) : IsInfix(span, e.chunks[k].text)

\* nothing but whitespace, or nothing at all
IsBlank(s) == \A i \in 1..Len(s) : s[i] \in Whitespace

\* C28: chunk_text returns the empty sequence for the empty string and for
\* every text of whitespace only, and the text of every chunk it returns, for
\* any text, is not empty after trimming.
C28_BlankTextGivesNoChunk ==
    \A e \in Log :
        /\ IsBlank(e.text) => e.chunks = <<>>
        /\ \A k \in 1..Len(e.chunks) : ~IsBlank(e.chunks[k].text)

\* C28 witness: a call on a text of several whitespace characters, with no
\* minimum chunk size to discard anything, returned no chunk
C28_Witness ==
    \E e \in Log :
        /\ Len(e.text) >= 3 /\ IsBlank(e.text)
        /\ ServiceOf(e).min_chunk_size = 0
        /\ e.chunks = <<>>

\* the call is one C29 speaks of: no clause marker in the text, no paragraph
\* longer than chunk_size, chunk_overlap between 0 and chunk_size
WithinFallbackLimits(e) ==
    /\ ClauseMarkers(e) = <<>>
    /\ \A i \in 1..Len(split(e.text)) : Len(strip(split(e.text)[i])) <= ServiceOf(e).chunk_size
    /\ ServiceOf(e).chunk_overlap \in 0..ServiceOf(e).chunk_size

\* C29: for a text without clause markers whose paragraphs are no longer than
\* chunk_size, and a chunk_overlap between 0 and chunk_size, the text of every
\* returned chunk has at most 2 * chunk_size characters.
C29_FallbackChunksWithinTwiceTheSize ==
    \A e \in Log :
        WithinFallbackLimits(e) =>
            \A k \in 1..Len(e.chunks) : Len(e.chunks[k].text) <= 2 * ServiceOf(e).chunk_size

ElementsOf(text) == elements(finditer("section", text, 1), finditer("clause", text, 1))

\* the trimmed text span of element i: from its start offset to the start
\* offset of the next element, or to the end of the text
ElementText(text, elems, i) ==
    strip(SubSeq(text, elems[i].pos,
                 (IF i + 1 <= Len(elems) THEN elems[i + 1].pos ELSE Len(text) + 1) - 1))

\* the state of the loop of _chunk_by_clauses when it reaches element i
RECURSIVE ClauseStateAt(_, _, _, _)
ClauseStateAt(self, text, elems, i) ==
    IF i = 1
    THEN [chunks |-> <<>>, chunk_index |-> 0, current_text |-> <<>>,
          current_clause |-> <<>>, current_section |-> <<>>,
          current_section_title |-> <<>>]
    ELSE clause_step(self, text, elems, i - 1, ClauseStateAt(self, text, elems, i - 1))

\* the state of the loop of _simple_chunk when it reaches paragraph i
RECURSIVE SimpleStateAt(_, _, _)
SimpleStateAt(self, paragraphs, i) ==
    IF i = 1
    THEN [chunks |-> <<>>, chunk_index |-> 0, current_text |-> <<>>]
    ELSE simple_step(self, paragraphs[i - 1], SimpleStateAt(self, paragraphs, i - 1))

\* the last k characters of s, none for k = 0
Trailing(s, k) == SubSeq(s, Len(s) - k + 1, Len(s))

\* what the accumulator is reseeded with after a flush of `flushed`
Seed(self, flushed) == Trailing(flushed, Min({self.chunk_overlap, Len(flushed)}))

\* the loop of _chunk_by_clauses flushes the accumulator on element i, a clause
\* that would take it over chunk_size
ClauseFlushAt(self, text, elems, i) ==
    /\ elems[i].type = "clause"
    /\ ClauseStateAt(self, text, elems, i).current_text # <<>>
    /\ Len(ClauseStateAt(self, text, elems, i).current_text)
           + Len(ElementText(text, elems, i)) > self.chunk_size

\* the loop of _simple_chunk flushes the accumulator on paragraph i, which would
\* take it over chunk_size
SimpleFlushAt(self, paragraphs, i) ==
    /\ strip(paragraphs[i]) # <<>>
    /\ SimpleStateAt(self, paragraphs, i).current_text # <<>>
    /\ Len(SimpleStateAt(self, paragraphs, i).current_text)
           + Len(strip(paragraphs[i])) > self.chunk_size

\* C31: whenever the structural loop or the fallback loop flushes its
\* accumulator because the next clause or paragraph would exceed chunk_size, the
\* new accumulator is the last min(chunk_overlap, length of the flushed
\* accumulator) characters of the flushed accumulator, then the blank-line
\* separator, then the new element; with chunk_overlap = 0 nothing of the
\* flushed accumulator is carried over.
C31_FlushSeedsTheOverlap ==
    \A e \in Log :
        /\ \A i \in 1..Len(ElementsOf(e.text)) :
              (ClauseMarkers(e) # <<>> /\ ClauseFlushAt(ServiceOf(e), e.text, ElementsOf(e.text), i))
              => ClauseStateAt(ServiceOf(e), e.text, ElementsOf(e.text), i + 1).current_text
                     = Seed(ServiceOf(e),
                            ClauseStateAt(ServiceOf(e), e.text, ElementsOf(e.text), i).current_text)
                       \o <<NL, NL>> \o ElementText(e.text, ElementsOf(e.text), i)
        /\ \A i \in 1..Len(split(e.text)) :
              (~Structural(e) /\ SimpleFlushAt(ServiceOf(e), split(e.text), i))
              => SimpleStateAt(ServiceOf(e), split(e.text), i + 1).current_text
                     = Seed(ServiceOf(e),
                            SimpleStateAt(ServiceOf(e), split(e.text), i).current_text)
                       \o <<NL, NL>> \o strip(split(e.text)[i])

\* the state of _chunk_by_clauses after its loop
ClauseStateEnd(self, text) == ClauseStateAt(self, text, ElementsOf(text), Len(ElementsOf(text)) + 1)

\* the chunks the loop of _chunk_by_clauses appends on element i
AppendedAt(self, text, i) ==
    SubSeq(ClauseStateAt(self, text, ElementsOf(text), i + 1).chunks,
           Len(ClauseStateAt(self, text, ElementsOf(text), i).chunks) + 1,
           Len(ClauseStateAt(self, text, ElementsOf(text), i + 1).chunks))

\* the chunk carries the clause number, section id and section title of state st
TaggedAs(c, st) ==
    /\ c.clause_number = st.current_clause
    /\ c.parent_section = st.current_section
    /\ c.section_title = st.current_section_title

\* the last section element before element i, 0 when there is none
SectionBefore(elems, i) ==
    Max({0} \cup {j \in 1..(i - 1) : elems[j].type = "section"})

\* the chunk carries the id and title of the last section element before element
\* i, and none when there is no such element
InSectionBefore(c, elems, i) ==
    IF SectionBefore(elems, i) = 0
    THEN c.parent_section = <<>> /\ c.section_title = <<>>
    ELSE /\ c.parent_section = elems[SectionBefore(elems, i)].number
         /\ c.section_title = elems[SectionBefore(elems, i)].title

\* C32: on the structural path, a section element met with a non-empty
\* accumulator flushes it as one chunk that carries the section id, section
\* title and clause number active before the element, and leaves the accumulator
\* and the clause number empty, so that the accumulator never holds text of two
\* sections; every chunk emitted after a section element, up to the next one,
\* carries that section's id and title as parent_section and section_title.
C32_SectionElementFlushesAndRetags ==
    \A e \in Log :
        Structural(e) =>
            /\ \A i \in 1..Len(ElementsOf(e.text)) :
                  LET before == ClauseStateAt(ServiceOf(e), e.text, ElementsOf(e.text), i)
                      after == ClauseStateAt(ServiceOf(e), e.text, ElementsOf(e.text), i + 1)
                      new == AppendedAt(ServiceOf(e), e.text, i)
                  IN  /\ ElementsOf(e.text)[i].type = "section" =>
                            /\ Len(new) = (IF before.current_text # <<>> THEN 1 ELSE 0)
                            /\ \A k \in 1..Len(new) :
                                  new[k].text = strip(before.current_text) /\ TaggedAs(new[k], before)
                            /\ after.current_text = <<>>
                            /\ after.current_clause = <<>>
                            /\ after.current_section = ElementsOf(e.text)[i].number
                            /\ after.current_section_title = ElementsOf(e.text)[i].title
                      /\ \A k \in 1..Len(new) : InSectionBefore(new[k], ElementsOf(e.text), i)
            /\ \A k \in (Len(ClauseStateEnd(ServiceOf(e), e.text).chunks) + 1)..Len(e.chunks) :
                  InSectionBefore(e.chunks[k], ElementsOf(e.text), Len(ElementsOf(e.text)) + 1)
            /\ \A k \in 1..Len(ClauseStateEnd(ServiceOf(e), e.text).chunks) :
                  e.chunks[k] = ClauseStateEnd(ServiceOf(e), e.text).chunks[k]

\* C32 witness: a call on the structural path whose text has a clause, then a
\* section element, then a clause: the first chunk is the clause flushed by the
\* section element, with no section, and a later chunk carries the section's id
\* and title
C32_Witness ==
    \E e \in Log :
        /\ Structural(e)
        /\ \E i \in 2..Len(ElementsOf(e.text)) :
              /\ ElementsOf(e.text)[i].type = "section"
              /\ ClauseStateAt(ServiceOf(e), e.text, ElementsOf(e.text), i).current_text # <<>>
              /\ Len(AppendedAt(ServiceOf(e), e.text, i)) = 1
              /\ e.chunks[1].parent_section = <<>>
              /\ e.chunks[1].clause_number # <<>>
              /\ \E k \in 2..Len(e.chunks) :
                    /\ e.chunks[k].parent_section = ElementsOf(e.text)[i].number
                    /\ e.chunks[k].section_title = ElementsOf(e.text)[i].title
                    /\ e.chunks[k].parent_section # <<>>
                    /\ e.chunks[k].section_title # <<>>

\* the chunks _chunk_by_clauses builds for a call, kept by chunk_text or not
StructuralChunks(e) == _chunk_by_clauses(ServiceOf(e), e.text)

\* C37: every chunk _chunk_by_clauses emits has chunk_type "clause" or "text",
\* and it has chunk_type "clause" exactly when its clause_number is not empty.
C37_ChunkTypeAgreesWithClauseNumber ==
    \A e \in Log :
        \A k \in 1..Len(StructuralChunks(e)) :
            /\ StructuralChunks(e)[k].chunk_type \in {"clause", "text"}
            /\ StructuralChunks(e)[k].chunk_type = "clause"
                   <=> StructuralChunks(e)[k].clause_number # <<>>

\* C37 witness: a call on the structural path returned two chunks with
\* chunk_type "clause" and a clause number, one flushed by a clause that would
\* exceed chunk_size and one flushed by a section element
C37_Witness ==
    \E e \in Log :
        /\ Structural(e)
        /\ Len(e.chunks) = 2
        /\ \A k \in 1..2 : e.chunks[k].chunk_type = "clause" /\ e.chunks[k].clause_number # <<>>
        /\ \E i, j \in 1..Len(ElementsOf(e.text)) :
              /\ ElementsOf(e.text)[i].type = "section"
              /\ Len(AppendedAt(ServiceOf(e), e.text, i)) = 1
              /\ ElementsOf(e.text)[j].type = "clause"
              /\ Len(AppendedAt(ServiceOf(e), e.text, j)) = 1

\* C38: on the structural path, the trimmed text span of every element of the
\* structural scan, clause or section, from its start offset to the start
\* offset of the next element or to the end of the document, occurs whole in
\* the text of at least one returned chunk.
C38_NoElementTextIsLost ==
    \A e \in Log :
        Structural(e) =>
            \A i \in 1..Len(ElementsOf(e.text)) :
                \E k \in 1..Len(e.chunks) :
                    IsInfix(ElementText(e.text, ElementsOf(e.text), i), e.chunks[k].text)

\* ---------------------------------------------------------------------------
\* The gate and the executing registry
\* ---------------------------------------------------------------------------
\* C33: in every state between manager operations, the pause gate of every
\* registered task is closed exactly when the status of the task is PAUSED or
\* WAITING_INPUT; a RUNNING task and a terminal task have an open gate.
C33_GateAgreesWithStatus ==
    \A t \in tasks : GateClosed(t) <=> StatusOf(t) \in {PAUSED, WAITING_INPUT}

\* C39: whenever an executor unit of work of a task is in flight, _executors maps
\* the task's id to that unit of work, so that an accepted cancel_task reaches
\* every in-flight executor of the task; and an entry of _executors is that of
\* an execute_task call that has not returned.
C39_ExecutorsTrackInFlightWork ==
    /\ \A c \in CallIds :
          InFlight(c) => calls[c].tid \in DOMAIN executors /\ executors[calls[c].tid] = c
    /\ \A t \in DOMAIN executors :
          calls[executors[t]].tid = t /\ calls[executors[t]].pc \in {"awaiting", "finishing"}

\* ---------------------------------------------------------------------------
\* The A2A server
\* ---------------------------------------------------------------------------
\* C34: once the cancel route has set the state of an A2A task to CANCELLED, no
\* step changes that state, and none sets the output or the error of the task:
\* the _execute_task run of the task, whether _dispatch_skill returns or raises,
\* leaves the task CANCELLED.
C34_A2ACancelIsFinal ==
    [][\A id \in DOMAIN a2a.objects :
          a2a.objects[id].state = A2A_CANCELLED =>
              /\ a2a.objects'[id].state = A2A_CANCELLED
              /\ a2a.objects'[id].output = a2a.objects[id].output
              /\ a2a.objects'[id].error = a2a.objects[id].error]_vars

\* ---------------------------------------------------------------------------
\* The session store
\* ---------------------------------------------------------------------------
SessionOps == {sessions.ops[i] : i \in 1..Len(sessions.ops)}

\* every SessionManager operation called so far has returned
AllReturned == \A o \in SessionOps : o.pc = "returned"

\* C35: when update_context, set_active_documents and add_message calls on one
\* session have all returned, in whatever way they interleaved, and the session
\* was not deleted, the stored session holds the effect of each that returned
\* True: every context key that was set is there with its value, and the
\* active-document list is the one set_active_documents was given.
C35_SessionUpdatesAreNotLost ==
    (AllReturned /\ \A o \in SessionOps : o.op # "delete_session") =>
        \A o \in SessionOps :
            /\ (o.op = "update_context" /\ o.ret) =>
                  /\ o.sid \in DOMAIN sessions.session
                  /\ o.key \in DOMAIN sessions.session[o.sid].context_data
                  /\ sessions.session[o.sid].context_data[o.key] = o.value
            /\ (o.op = "set_active_documents" /\ o.ret) =>
                  /\ o.sid \in DOMAIN sessions.session
                  /\ sessions.session[o.sid].active_documents = o.documents

\* C36: add_message returns False without pushing a turn when the session does
\* not exist; and once add_message and delete_session calls on a session have
\* all returned, in whatever way they interleaved, a session that was deleted
\* and has no session record has no history list either.
C36_NoHistoryWithoutSession ==
    /\ \A o \in SessionOps :
          (o.op = "add_message" /\ o.pc = "returned" /\ ~o.ret) => ~o.pushed
    /\ AllReturned =>
          \A o \in SessionOps :
              (o.op = "delete_session" /\ o.sid \notin DOMAIN sessions.session)
                  => o.sid \notin DOMAIN sessions.history

====
